---- MODULE Spec2Model ----
(***************************************************************************)
(* Session / action-tracking state machine of the Kia, Hyundai and Genesis *)
(* USA clients (kia_hyundai_api) and of the coordinator's refresh cycle.   *)
(*                                                                         *)
(* Every coroutine of the source is a frame on a task's call stack; a task *)
(* runs from one await that really suspends (an HTTP request, the OTP      *)
(* callback, asyncio.sleep) to the next while it holds the event loop      *)
(* (running = t), so tasks interleave exactly at those awaits.             *)
(***************************************************************************)
EXTENDS Integers, Sequences, FiniteSets, TLC

\* ------------------------------------------------------------------ values
None == "None"

VehicleIds == {"A", "B"}
\* vehicle lists the vendor may report (self.vehicles after get_vehicles)
VehicleLists == {VehicleIds, {"B"}}
\* self.vehicles is None
NoVehicles == {None}

\* session ids the vendor hands out for a usable session
Sids == {"s1", "s2"}
\* the sid verifyOTP returns is only provisional
ProvisionalSids == {"p1"}
RmTokens == {"rm1", "rm2"}
Xids == {"x1", "x2"}
Payloads == {"d1", "d2"}

CommandNames == {"lock", "unlock", "set_charge_limits"}
\* the commands of the lock entity
LockCommands == {"lock", "unlock"}

\* self.last_action is None
NoAction == [name |-> None, xid |-> None]
\* coordinator.data is None; soc is evStatus.targetSOC of a snapshot, the
\* empty list also standing for a snapshot without that key
NoData == [payload |-> None, last_action_status |-> NoAction, soc |-> <<>>]

Tasks == {1, 2}

\* saturation value of the per-operation counters
CounterCap == 12

Bump(n) == IF n < CounterCap THEN n + 1 ELSE n

\* UsGenesis.TOKEN_REFRESH_BUFFER_SECONDS
TOKEN_REFRESH_BUFFER_SECONDS == 300

\* now >= expires_at - buffer, for a token whose expiry exp is known ({} if not)
InBuffer(exp, t) == \E at \in exp : t >= at - TOKEN_REFRESH_BUFFER_SECONDS

\* ------------------------------------------------------------- exceptions
\* errors.py: BaseError(ClientError); AuthError(BaseError);
\* ActionAlreadyInProgressError(BaseError); PINLockedError(AuthError)
IsAuthError(e) == e \in {"AuthError", "PINLockedError", "TokenExpiredError"}

IsClientError(e) ==
    \/ IsAuthError(e)
    \/ e \in {"ClientError", "ActionAlreadyInProgressError", "RateError"}

VARIABLES
    kia,      \* the UsKia object: session_id, refresh_token, otp_key, otp_xid,
              \* notify_type, vehicles, last_action
    gen,      \* the UsGenesis object: access_token, token_expires_at, vehicles, last_action
    hyu,      \* the UsHyundai object: access_token, vehicles, last_action
    hass,     \* hass.data[DOMAIN] for one (brand, username): the asyncio.Lock, the
              \* stored connection, and the outcome of the first login (history)
    data,     \* coordinator.data of the Kia and of the Genesis coordinator
    task,     \* the asyncio tasks: state, call stack, exception in flight, return value
    running,  \* the task that holds the event loop, 0 when all are suspended
    obs,      \* per task, what the current operation has done so far (history)
    now,      \* datetime.now(timezone.utc), in seconds
    hist,     \* history of the run
    conv,     \* the seat and capability conversions: the arguments at hand (arg),
              \* the last function called and its result (fn, res), the
              \* module-level cache _seat_level_mappings for the vehicle, and
              \* whether the vendor's details have been fetched (history)
    registry, \* hass.data[DOMAIN] as a whole, for the config entries A and B:
              \* the keys it holds, each entry's position in async_setup_entry
              \* and async_unload_entry, and what its last setup did (history)
    adapter   \* the EUApiAdapter of a vehicle (_last_action), the order the
              \* vendor holds for it, and the positions of the coordinator's
              \* refresh() and of the adapter call a caller awaits

vars == <<kia, gen, hyu, hass, data, task, running, obs, now, hist, conv, registry, adapter>>

\* ------------------------------------------------------ frames and tasks
Frame(fn, pc, vid, name) ==
    [fn |-> fn, pc |-> pc, att |-> 1, vid |-> vid, name |-> name,
     a |-> None, b |-> None, c |-> None]

\* a response, a return value or a callback answer
Resp(k) ==
    [k |-> k, sid |-> None, rm |-> None, xid |-> None, fin |-> FALSE,
     vl |-> NoVehicles, otp |-> FALSE, exp |-> FALSE, val |-> None, ttl |-> {},
     snap |-> NoData]

IdleTask ==
    [st |-> "idle", op |-> None, vid |-> None, stack |-> <<>>, exc |-> None,
     ret |-> Resp(None), rq |-> None, out |-> None, wait |-> 0]

\* what a command finds when it is called: the pending action, the session
\* id and the vehicle cache (history)
Found(k) == [last_action |-> k.last_action, session_id |-> k.session_id, vehicles |-> k.vehicles]

NothingFound == [last_action |-> NoAction, session_id |-> None, vehicles |-> NoVehicles]

NoObs ==
    [nReq |-> 0, nRepair |-> 0, nLoginAfter |-> 0, allAuth |-> TRUE,
     cmdSent |-> FALSE, pollNF |-> FALSE, pollFin |-> FALSE, xid |-> None,
     otpLog |-> <<>>, rt0 |-> None, rm |-> None, finalSid |-> None,
     fetchExc |-> None, prevData |-> NoData,
     startRejected |-> FALSE, startInBuffer |-> FALSE, rejectedAgain |-> FALSE,
     loginSent |-> FALSE, loggedIn |-> FALSE, afterRepair |-> None,
     pinAnswer |-> FALSE, loginExc |-> None, otpTimeout |-> FALSE, authSid |-> None,
     listSent |-> FALSE, nonJson |-> FALSE, bodyOk |-> FALSE, raised |-> None,
     socSent |-> <<>>,
     found |-> NothingFound]

Top(tk) == tk.stack[Len(tk.stack)]
Pop(tk) == [tk EXCEPT !.stack = SubSeq(@, 1, Len(@) - 1)]
Push(tk, f) == [tk EXCEPT !.stack = Append(@, f)]
SetPc(tk, pc) == [tk EXCEPT !.stack[Len(tk.stack)].pc = pc]
\* await callee(...): the caller resumes at pc when the callee returns
Call(tk, pc, f) == Push(SetPc([tk EXCEPT !.ret = Resp(None)], pc), f)
Return(tk, r) == [Pop(tk) EXCEPT !.ret = r]
Raise(tk, e) == [Pop(tk) EXCEPT !.exc = e]
\* the task suspends on the event loop: an HTTP request, the callback, a sleep
Suspend(tk, st, rq) == [tk EXCEPT !.st = st, !.rq = rq, !.ret = Resp(None)]

Eff(k, tk) == [kia |-> k, tk |-> tk]

At(t, fn) ==
    /\ running = t
    /\ task[t].st = "run"
    /\ task[t].exc = None
    /\ task[t].stack # <<>>
    /\ Top(task[t]).fn = fn

\* the frame on top raised or let an exception through
Failing(t, fn) ==
    /\ running = t
    /\ task[t].st = "run"
    /\ task[t].exc # None
    /\ task[t].stack # <<>>
    /\ Top(task[t]).fn = fn

Apply(t, e) ==
    /\ kia' = e.kia
    /\ task' = [task EXCEPT ![t] = e.tk]
    /\ running' = IF e.tk.st = "run" THEN t ELSE 0

\* ---------------------------------------------------------------- vendor
\* what the vendor (or the transport) may answer to a request sent through the
\* request_with_logging decorator: "ok" is statusCode 0, "auth" a non-JSON
\* answer or errorCode 1003/1005/1037/1165, "busy" errorCode 1001/1132,
\* "err" any other error answer or an aiohttp ClientError
ErrorAnswers == {Resp("auth"), Resp("busy"), Resp("err")}

OkAnswers(rq) ==
    CASE rq = "authUser" ->
            {[Resp("ok") EXCEPT !.sid = s] : s \in Sids}
            \cup {[Resp("ok") EXCEPT !.otp = TRUE, !.exp = x, !.xid = "xid"] : x \in BOOLEAN}
            \cup {[Resp("ok") EXCEPT !.sid = s, !.otp = TRUE, !.xid = "xid"] : s \in Sids}
            \cup {Resp("ok")}
      [] rq = "verifyOTP" ->
            {[Resp("ok") EXCEPT !.sid = s, !.rm = m] : s \in ProvisionalSids, m \in RmTokens}
            \cup {Resp("ok")}
      [] rq = "gvl" -> {[Resp("ok") EXCEPT !.vl = l] : l \in VehicleLists}
      [] rq = "gvi" ->
            {[Resp("ok") EXCEPT !.snap = [NoData EXCEPT !.payload = p]] : p \in Payloads}
      [] rq = "gts" -> {[Resp("ok") EXCEPT !.fin = b] : b \in BOOLEAN}
      [] rq = "cmd" -> {[Resp("ok") EXCEPT !.xid = x] : x \in Xids}
      [] OTHER -> {Resp("ok")}

Answers(rq) == OkAnswers(rq) \cup ErrorAnswers

\* the complete-login request is sent with api_session.post directly
\* (raise_for_status=True): a final sid header, none, or a transport error
DirectAnswers == {[Resp("ok") EXCEPT !.sid = s] : s \in Sids} \cup {Resp("ok"), Resp("err")}

\* what otp_callback may answer: a destination / a code, or no such key
DestinationAnswers == {"EMAIL", "sms", "FAX", None}
CodeAnswers == {"482913", " ", None}

\* str(callback_response.get("notify_type", "EMAIL")).upper()
NotifyTypeOf(val) ==
    CASE val = None -> "EMAIL"
      [] val = "sms" -> "SMS"
      [] OTHER -> val

\* str(otp_callback_response.get("otp_code", "")).strip()
OtpCodeOf(val) == IF val \in {None, " "} THEN "" ELSE val

\* --------------------------------------------------- util_http decorators
\* request_with_logging: the response envelope decides return or raise
RequestWithLogging(k, tk, r) ==
    CASE r.k = "ok" -> Eff(k, Return(tk, r))
      [] r.k = "auth" -> Eff(k, Raise(tk, "AuthError"))
      [] r.k = "busy" ->
            Eff([k EXCEPT !.last_action = NoAction],
                Raise(tk, "ActionAlreadyInProgressError"))
      [] OTHER -> Eff(k, Raise(tk, "ClientError"))

\* request_with_active_session, the except AuthError branch
RepairMutKeepsSession(k) == [k EXCEPT !.vehicles = NoVehicles, !.last_action = NoAction]

Repair(k) ==
    [k EXCEPT !.session_id = None, !.vehicles = NoVehicles, !.last_action = NoAction]

\* the calls request_with_active_session makes of the function it wraps
WrapperCalls == 2

\* request_with_active_session catches AuthError (and its subtypes) around the
\* first call only; the second call is outside the try
WrapperCatchesMutAlways(f, e) == IsAuthError(e)

WrapperCatches(f, e) == IsAuthError(e) /\ f.att < WrapperCalls

BodyFrame(op, vid) ==
    IF op \in CommandNames THEN Frame("cmd", "start", vid, op) ELSE Frame(op, "start", vid, op)

WrapFrame(op, vid) == Frame("wrap", "call", vid, op)

ReqFrame(rq, authed) == [Frame("req", "start", None, rq) EXCEPT !.a = authed]

\* ------------------------------------------------------------ UsKia steps
\* if authed and self.session_id is None
NeedsLoginMutNever(k, authed) == FALSE

NeedsLogin(k, authed) == authed = "authed" /\ k.session_id = None

\* _post/_get_request_with_logging_and_errors_raised up to the await of the request
RequestNext(k, tk) ==
    LET f == Top(tk)
    IN IF f.pc = "start" /\ NeedsLogin(k, f.a)
       THEN Eff(k, Call(tk, "send", Frame("login", "start", None, None)))
       ELSE Eff(k, Suspend(SetPc(tk, "recv"), "http", f.name))

\* _send_otp
SendOtpNext(k, tk) ==
    LET f == Top(tk)
    IN IF f.pc = "start"
       THEN IF f.name \notin {"EMAIL", "SMS"} \/ k.otp_key = None \/ k.otp_xid = None
            THEN Eff(k, Raise(tk, "ValueError"))
            ELSE Eff([k EXCEPT !.notify_type = f.name],
                     Call(tk, "resp", ReqFrame("sendOTP", "open")))
       ELSE Eff(k, Return(tk, tk.ret))

\* _verify_otp
VerifyOtpNext(k, tk) ==
    LET f == Top(tk)
    IN IF f.pc = "start"
       THEN IF k.otp_key = None \/ k.otp_xid = None
            THEN Eff(k, Raise(tk, "ValueError"))
            ELSE Eff(k, Call(tk, "resp", ReqFrame("verifyOTP", "open")))
       ELSE IF tk.ret.sid = None \/ tk.ret.rm = None
            THEN Eff(k, Raise(tk, "AuthError"))
            ELSE Eff(k, Return(tk, tk.ret))

\* _complete_login_with_otp: a direct post carrying the provisional sid and rmtoken
CompleteLoginNext(k, tk) ==
    LET f == Top(tk)
    IN IF f.pc = "start"
       THEN Eff(k, Suspend(SetPc(tk, "resp"), "http", "completeLogin"))
       ELSE IF tk.ret.k = "err"
            THEN Eff(k, Raise(tk, "ClientError"))
            ELSE IF tk.ret.sid = None
                 THEN Eff(k, Raise(tk, "AuthError"))
                 ELSE Eff(k, Return(tk, tk.ret))

\* the positions of login inside its try ... finally
LoginTryPcs == {"dest", "sent", "code", "verified", "completed"}

\* login's finally block
ClearOtp(k) == [k EXCEPT !.otp_key = None, !.otp_xid = None, !.notify_type = None]

\* what leaving frame f does to the object: login's finally, nothing elsewhere
Finally(k, f) == IF f.fn = "login" /\ f.pc \in LoginTryPcs THEN ClearOtp(k) ELSE k

\* the finally block when an exception leaves the frame
UnwindFinallyMutSkipped(k, f) == k

UnwindFinally(k, f) == Finally(k, f)

\* the last two assignments of login's OTP path
LoginAssignMutProvisional(k, f, final) ==
    [k EXCEPT !.session_id = f.a, !.refresh_token = f.b]

LoginAssignMutKeepsToken(k, f, final) == [k EXCEPT !.session_id = final]

LoginAssign(k, f, final) == [k EXCEPT !.session_id = final, !.refresh_token = f.b]

\* if self.session_id: return
DirectSessionMutNever(sid) == FALSE

DirectSession(sid) == sid # None

\* login
LoginNext(k, tk) ==
    LET f == Top(tk)
        r == tk.ret
    IN CASE f.pc = "start" ->
              Eff(k, Call([tk EXCEPT !.stack[Len(tk.stack)].c = k.refresh_token],
                          "resp", ReqFrame("authUser", "open")))
         [] f.pc = "resp" ->
              LET k1 == [k EXCEPT !.session_id = r.sid]
              IN IF DirectSession(r.sid)
                 THEN Eff(k1, Return(tk, r))
                 ELSE IF r.otp
                      THEN Eff([k1 EXCEPT !.refresh_token = IF r.exp THEN None ELSE @,
                                          !.otp_key = "otpKey", !.otp_xid = r.xid],
                               Suspend(SetPc(tk, "dest"), "cb", "choose_destination"))
                      ELSE Eff(k1, Raise(tk, "AuthError"))
         [] f.pc = "dest" ->
              Eff(k, Call([tk EXCEPT !.stack[Len(tk.stack)].name = NotifyTypeOf(r.val)],
                          "sent", Frame("send_otp", "start", None, NotifyTypeOf(r.val))))
         [] f.pc = "sent" ->
              Eff(k, Suspend(SetPc(tk, "code"), "cb", "input_code"))
         [] f.pc = "code" ->
              IF OtpCodeOf(r.val) = ""
              THEN Eff(k, [tk EXCEPT !.exc = "AuthError"])
              ELSE Eff(k, Call(tk, "verified", Frame("verify_otp", "start", None, None)))
         [] f.pc = "verified" ->
              Eff(k, Call([tk EXCEPT !.stack[Len(tk.stack)].a = r.sid,
                                     !.stack[Len(tk.stack)].b = r.rm],
                          "completed", Frame("complete", "start", None, None)))
         [] f.pc = "completed" ->
              Eff(Finally(LoginAssign(k, f, r.sid), f), SetPc(tk, "exit"))
         [] OTHER -> Eff(k, Return(tk, r))

\* get_vehicles
GetVehiclesNext(k, tk) ==
    IF Top(tk).pc = "start"
    THEN Eff(k, Call(tk, "resp", ReqFrame("gvl", "authed")))
    ELSE Eff([k EXCEPT !.vehicles = tk.ret.vl], Return(tk, tk.ret))

\* find_vehicle_key
FindVehicleKeyNext(k, tk) ==
    LET f == Top(tk)
    IN IF f.pc = "start" /\ k.vehicles = NoVehicles
       THEN Eff(k, Call(tk, "look", WrapFrame("get_vehicles", None)))
       ELSE IF k.vehicles # NoVehicles /\ f.vid \in k.vehicles
            THEN Eff(k, Return(tk, tk.ret))
            ELSE Eff(k, Raise(tk, "ValueError"))

\* check_last_action_finished drops the pending action whatever the poll says
ClafNextMutClearsPending(k, tk) ==
    LET f == Top(tk)
    IN CASE f.pc = "start" -> Eff(k, Call(tk, "chk", Frame("find_vehicle_key", "start", f.vid, None)))
         [] f.pc = "chk" ->
              IF k.last_action = NoAction
              THEN Eff(k, Return(tk, [Resp("ok") EXCEPT !.fin = TRUE]))
              ELSE Eff(k, Call(tk, "resp", ReqFrame("gts", "authed")))
         [] OTHER -> Eff([k EXCEPT !.last_action = NoAction], Return(tk, tk.ret))

\* check_last_action_finished
ClafNext(k, tk) ==
    LET f == Top(tk)
    IN CASE f.pc = "start" -> Eff(k, Call(tk, "chk", Frame("find_vehicle_key", "start", f.vid, None)))
         [] f.pc = "chk" ->
              IF k.last_action = NoAction
              THEN Eff(k, Return(tk, [Resp("ok") EXCEPT !.fin = TRUE]))
              ELSE Eff(k, Call(tk, "resp", ReqFrame("gts", "authed")))
         [] OTHER ->
              Eff(IF tk.ret.fin THEN [k EXCEPT !.last_action = NoAction] ELSE k,
                  Return(tk, tk.ret))

\* lock, unlock, start_climate, stop_climate, start_charge, stop_charge,
\* set_charge_limits: the same body around a different request
CommandNextMutIgnoresPoll(k, tk) ==
    LET f == Top(tk)
    IN CASE f.pc = "start" ->
              Eff(k, Call(tk, "chk", WrapFrame("check_last_action_finished", f.vid)))
         [] f.pc = "chk" ->
              Eff(k, Call(tk, "key", Frame("find_vehicle_key", "start", f.vid, None)))
         [] f.pc = "key" -> Eff(k, Call(tk, "resp", ReqFrame("cmd", "authed")))
         [] OTHER ->
              Eff([k EXCEPT !.last_action = [name |-> f.name, xid |-> tk.ret.xid]],
                  Return(tk, tk.ret))

CommandNext(k, tk) ==
    LET f == Top(tk)
    IN CASE f.pc = "start" ->
              Eff(k, Call(tk, "chk", WrapFrame("check_last_action_finished", f.vid)))
         [] f.pc = "chk" ->
              IF tk.ret.fin = FALSE
              THEN Eff(k, Raise(tk, IF k.last_action = NoAction
                                    THEN "TypeError"
                                    ELSE "ActionAlreadyInProgressError"))
              ELSE Eff(k, Call(tk, "key", Frame("find_vehicle_key", "start", f.vid, None)))
         [] f.pc = "key" -> Eff(k, Call(tk, "resp", ReqFrame("cmd", "authed")))
         [] OTHER ->
              Eff([k EXCEPT !.last_action = [name |-> f.name, xid |-> tk.ret.xid]],
                  Return(tk, tk.ret))

\* get_cached_vehicle_status
StatusNext(k, tk) ==
    LET f == Top(tk)
    IN CASE f.pc = "start" -> Eff(k, Call(tk, "key", Frame("find_vehicle_key", "start", f.vid, None)))
         [] f.pc = "key" -> Eff(k, Call(tk, "resp", ReqFrame("gvi", "authed")))
         [] OTHER -> Eff(k, Return(tk, tk.ret))

\* request_vehicle_data_sync
SyncNext(k, tk) ==
    LET f == Top(tk)
    IN CASE f.pc = "start" -> Eff(k, Call(tk, "key", Frame("find_vehicle_key", "start", f.vid, None)))
         [] f.pc = "key" -> Eff(k, Call(tk, "resp", ReqFrame("rvs", "authed")))
         [] OTHER -> Eff(k, Return(tk, tk.ret))

\* request_with_active_session around the first call and after it returned
WrapperNext(k, tk) ==
    LET f == Top(tk)
    IN IF f.pc = "call"
       THEN Eff(k, Call(tk, "ret", BodyFrame(f.name, f.vid)))
       ELSE Eff(k, Return(tk, tk.ret))

\* request_with_active_session, except AuthError: repair and call again
WrapperRetry(k, tk) ==
    Eff(Repair(k),
        Push([tk EXCEPT !.exc = None, !.stack[Len(tk.stack)].att = 2],
             BodyFrame(Top(tk).name, Top(tk).vid)))

\* --------------------------------------------- _get_or_create_api_connection
\* UsKia.__init__ with a stored refresh token or none, and with the config
\* flow's otp_callback or the one of entry setup
NewKia(rt, cb) ==
    [session_id |-> None, refresh_token |-> rt, otp_key |-> None,
     otp_xid |-> None, notify_type |-> None, vehicles |-> NoVehicles,
     last_action |-> NoAction, otp_callback |-> cb]

\* the connection objects the calls may build, in the order they are built
ConnectionIds == <<"c1", "c2">>

\* the positions of _get_or_create_api_connection inside `async with lock`
InsideLock == {"locked", "logged", "listed"}

\* asyncio.Lock.acquire returns at once when the lock is free
LockFreeMutIgnored(h) == TRUE

LockFree(h) == h.lock = 0

\* __aexit__ of `async with lock` when an exception leaves the frame f; the
\* first login() of the account has failed if it is the one that raised
LockExit(h, f) ==
    IF f.fn = "get_or_create" /\ f.pc \in InsideLock
    THEN [h EXCEPT !.lock = 0,
                   !.first = IF @ = None /\ f.pc = "logged" THEN "failed" ELSE @]
    ELSE h

\* _get_or_create_api_connection for a Kia entry whose stored refresh token is rt
GetOrCreateNext(k, h, tk, t, rt) ==
    LET f == Top(tk)
        made == ConnectionIds[h.made + 1]
    IN CASE f.pc = "start" ->
              IF LockFree(h)
              THEN [kia |-> k, hass |-> [h EXCEPT !.lock = t], tk |-> SetPc(tk, "locked")]
              ELSE [kia |-> k, hass |-> h, tk |-> Suspend(tk, "lock", None)]
         [] f.pc = "locked" ->
              IF h.conn # None /\ k.session_id # None
              THEN [kia |-> k, hass |-> [h EXCEPT !.lock = 0],
                    tk |-> Return(tk, [Resp("ok") EXCEPT !.val = h.conn])]
              ELSE [kia |-> NewKia(rt, "entry_setup"),
                    hass |-> [h EXCEPT !.made = @ + 1],
                    tk |-> Call([tk EXCEPT !.stack[Len(tk.stack)].a = made],
                                "logged", Frame("login", "start", None, None))]
         [] f.pc = "logged" ->
              [kia |-> k, hass |-> [h EXCEPT !.first = IF @ = None THEN "ok" ELSE @],
               tk |-> Call(tk, "listed", WrapFrame("get_vehicles", None))]
         [] OTHER ->
              [kia |-> k, hass |-> [h EXCEPT !.lock = 0, !.conn = f.a, !.by = t],
               tk |-> Return(tk, [Resp("ok") EXCEPT !.val = f.a])]

\* ------------------------------------------------- VehicleCoordinator.refresh
\* self.api_connection.<operation>: UsKia's are decorated, UsGenesis' are not
ConnectionFrame(conn, op, vid) ==
    IF conn = "kia" THEN WrapFrame(op, vid) ELSE Frame(op, "start", vid, "genesis")

FetchCall(tk, vid) ==
    Call(tk, "got", ConnectionFrame(Top(tk).name, "get_cached_vehicle_status", vid))

\* the targetSOC entries a vendor may report: plugType 0 is DC, 1 is AC
PlugTypes == {0, 1, 2}
SocLevels == {80, 90}
SocEntries == [plugType : PlugTypes, targetSOClevel : SocLevels]

\* the longest targetSOC list
MaxSocEntries == 2

\* the lists the vendor may send, in any order and with repeated plug types
SocLists == UNION {[1..n -> SocEntries] : n \in 0..MaxSocEntries}

\* list.sort puts e behind the entries whose key is not greater (it is stable)
RECURSIVE InsertByPlugType(_, _)
InsertByPlugType(e, s) ==
    IF s = <<>> THEN <<e>>
    ELSE IF s[Len(s)].plugType <= e.plugType THEN Append(s, e)
    ELSE Append(InsertByPlugType(e, SubSeq(s, 1, Len(s) - 1)), s[Len(s)])

\* list.sort: the entries one after the other, each behind its equals
RECURSIVE StableSort(_)
StableSort(s) ==
    IF s = <<>> THEN <<>>
    ELSE InsertByPlugType(s[Len(s)], StableSort(SubSeq(s, 1, Len(s) - 1)))

\* target_soc.sort(key=lambda x: x["plugType"])
SortByPlugTypeMutUnsorted(s) == s

SortByPlugType(s) == StableSort(s)

\* safely_get_json_value(self.data, "...evStatus.targetSOC.<i>.targetSOClevel", int):
\* the level of the entry at index i, None (the empty set) if there is none
SocLevelAt(d, i) == IF i < Len(d.soc) THEN {d.soc[i + 1].targetSOClevel} ELSE {}

\* VehicleCoordinator.ev_charge_limits_dc / ev_charge_limits_ac
ev_charge_limits_dc(d) == SocLevelAt(d, 0)
ev_charge_limits_ac(d) == SocLevelAt(d, 1)

\* refresh(): wait for the pending action, fetch, sort targetSOC, attach last_action
RefreshNext(k, tk) ==
    LET f == Top(tk)
    IN CASE f.pc = "loop" ->
              IF k.last_action # NoAction
              THEN Eff(k, Call(tk, "polled",
                               ConnectionFrame(f.name, "check_last_action_finished", f.vid)))
              ELSE Eff(k, FetchCall(tk, f.vid))
         [] f.pc = "polled" ->
              IF tk.ret.fin
              THEN Eff(k, FetchCall(tk, f.vid))
              ELSE Eff(k, Suspend(SetPc(tk, "loop"), "sleep", None))
         [] OTHER ->
              Eff(k, Return(tk, [tk.ret EXCEPT !.snap.soc = SortByPlugType(@),
                                               !.snap.last_action_status = k.last_action]))

\* the except clause catches every exception
RefreshHandlesMutAnyError(f, e, d) ==
    /\ f.fn = "refresh"
    /\ \/ f.pc = "polled"
       \/ f.pc = "got" /\ d # NoData

\* the two except ClientError clauses of refresh()
RefreshHandles(f, e, d) ==
    /\ f.fn = "refresh"
    /\ IsClientError(e)
    /\ \/ f.pc = "polled"
       \/ f.pc = "got" /\ d # NoData

RefreshCatchMutRewrites(k, tk, d) ==
    LET f == Top(tk)
        tk1 == [tk EXCEPT !.exc = None]
    IN IF f.pc = "polled"
       THEN Eff(k, FetchCall(tk1, f.vid))
       ELSE Eff(k, Return(tk1, [Resp("ok") EXCEPT
                                   !.snap = [d EXCEPT !.last_action_status = k.last_action]]))

RefreshCatch(k, tk, d) ==
    LET f == Top(tk)
        tk1 == [tk EXCEPT !.exc = None]
    IN IF f.pc = "polled"
       THEN Eff(k, FetchCall(tk1, f.vid))
       ELSE Eff(k, Return(tk1, [Resp("ok") EXCEPT !.snap = d]))

\* ------------------------------------------------------------------ history
OtpEvents == {"choose_destination", "sendOTP", "input_code", "verifyOTP", "completeLogin"}

\* the task tk has just run up to its next await
ObsStep(o, tk, k) ==
    IF tk.st \notin {"http", "cb"} THEN o
    ELSE [o EXCEPT
            !.nReq = IF tk.st = "http" THEN Bump(@) ELSE @,
            !.nLoginAfter = IF tk.rq = "authUser" /\ o.nRepair > 0 THEN Bump(@) ELSE @,
            !.cmdSent = @ \/ tk.rq = "cmd",
            !.loginSent = @ \/ tk.rq = "authUser",
            !.listSent = @ \/ tk.rq = "gvl",
            !.afterRepair = IF @ = "repaired" /\ tk.st = "http" THEN tk.rq ELSE @,
            !.otpLog = IF tk.rq = "authUser" THEN <<>>
                       ELSE IF tk.rq \in OtpEvents THEN Append(@, tk.rq) ELSE @,
            !.rt0 = IF tk.rq = "authUser" THEN k.refresh_token ELSE @,
            !.rm = IF tk.rq = "authUser" THEN None ELSE @,
            !.finalSid = IF tk.rq = "authUser" THEN None ELSE @,
            !.authSid = IF tk.rq = "authUser" THEN None ELSE @]

\* the vendor has answered r to request rq
ObsAnswer(o, rq, r) ==
    [o EXCEPT
        !.allAuth = @ /\ r.k = "auth",
        !.pollNF = IF rq = "gts" /\ r.k = "ok" THEN ~r.fin ELSE @,
        !.pollFin = IF rq = "gts" /\ r.k = "ok" THEN r.fin ELSE @,
        !.xid = IF rq = "cmd" /\ r.k = "ok" THEN r.xid ELSE @,
        !.rm = IF rq = "verifyOTP" /\ r.k = "ok" THEN r.rm ELSE @,
        !.finalSid = IF rq = "completeLogin" /\ r.k = "ok" THEN r.sid ELSE @,
        !.authSid = IF rq = "authUser" /\ r.k = "ok" THEN r.sid ELSE @]

\* the login() of a Bluelink client
BluelinkLogins == {"g_login", "h_login"}

\* the exception with which login() fails: raised by login (the frame f is on
\* top before the step and gone after it) or passing through it
LoginRaised(o, f, tk1) ==
    IF f.fn \in BluelinkLogins /\ tk1.exc # None THEN [o EXCEPT !.loginExc = tk1.exc] ELSE o

\* the vehicle whose command recorded the pending action (None when idle): a
\* command's last assignment records it for the command's vehicle_id
PendingOwner(own, tk, k1) ==
    IF k1.last_action = NoAction THEN None
    ELSE IF Top(tk).fn = "cmd" /\ Top(tk).pc = "resp" /\ tk.st = "run" /\ tk.exc = None
         THEN Top(tk).vid
         ELSE own

\* ------------------------------------------------------------------ actions
\* the step of task t turns the UsKia object into k1
Track(t, k1) == hist' = [hist EXCEPT !.owner = PendingOwner(@, task[t], k1)]

Step(t, e) ==
    /\ Apply(t, e)
    /\ obs' = [obs EXCEPT ![t] = ObsStep(@, e.tk, kia)]
    /\ Track(t, e.kia)
    /\ UNCHANGED <<gen, hyu, hass, data, now, conv, registry, adapter>>

RequestStep(t) == At(t, "req") /\ Step(t, RequestNext(kia, task[t]))
LoginStep(t) == At(t, "login") /\ Step(t, LoginNext(kia, task[t]))
SendOtpStep(t) == At(t, "send_otp") /\ Step(t, SendOtpNext(kia, task[t]))
VerifyOtpStep(t) == At(t, "verify_otp") /\ Step(t, VerifyOtpNext(kia, task[t]))
CompleteLoginStep(t) == At(t, "complete") /\ Step(t, CompleteLoginNext(kia, task[t]))
GetVehiclesStep(t) == At(t, "get_vehicles") /\ Step(t, GetVehiclesNext(kia, task[t]))
FindVehicleKeyStep(t) == At(t, "find_vehicle_key") /\ Step(t, FindVehicleKeyNext(kia, task[t]))
ClafStep(t) ==
    /\ At(t, "check_last_action_finished")
    /\ Top(task[t]).name # "genesis"
    /\ Step(t, ClafNext(kia, task[t]))
CommandStep(t) == At(t, "cmd") /\ Step(t, CommandNext(kia, task[t]))
StatusStep(t) ==
    /\ At(t, "get_cached_vehicle_status")
    /\ Top(task[t]).name # "genesis"
    /\ Step(t, StatusNext(kia, task[t]))
SyncStep(t) == At(t, "request_vehicle_data_sync") /\ Step(t, SyncNext(kia, task[t]))
WrapperStep(t) == At(t, "wrap") /\ Step(t, WrapperNext(kia, task[t]))

\* the except AuthError clause of request_with_active_session
WrapperCatch(t) ==
    /\ Failing(t, "wrap")
    /\ WrapperCatches(Top(task[t]), task[t].exc)
    /\ Apply(t, WrapperRetry(kia, task[t]))
    /\ obs' = [obs EXCEPT ![t].nRepair = Bump(@), ![t].afterRepair = "repaired"]
    /\ Track(t, kia')
    /\ UNCHANGED <<gen, hyu, hass, data, now, conv, registry, adapter>>

\* refresh() between awaits; DataUpdateCoordinator stores what it returns in data
RefreshStep(t) ==
    /\ At(t, "refresh")
    /\ Top(task[t]).name = "kia"
    /\ LET e == RefreshNext(kia, task[t])
       IN /\ Apply(t, e)
          /\ data' = IF Len(e.tk.stack) < Len(task[t].stack) THEN e.tk.ret.snap ELSE data
    /\ UNCHANGED <<gen, hyu, hass, obs, now, hist, conv, registry, adapter>>

RefreshExcept(t) ==
    /\ Failing(t, "refresh")
    /\ RefreshHandles(Top(task[t]), task[t].exc, data)
    /\ LET e == RefreshCatch(kia, task[t], data)
       IN /\ Apply(t, e)
          /\ data' = IF Len(e.tk.stack) < Len(task[t].stack) THEN e.tk.ret.snap ELSE data
    /\ obs' = [obs EXCEPT ![t].fetchExc = IF Top(task[t]).pc = "got" THEN task[t].exc ELSE @]
    /\ UNCHANGED <<gen, hyu, hass, now, hist, conv, registry, adapter>>

\* an exception leaves a frame that does not handle it (login runs its finally)
Unwind(t) ==
    /\ running = t
    /\ task[t].st = "run"
    /\ task[t].exc # None
    /\ task[t].stack # <<>>
    /\ ~WrapperCatches(Top(task[t]), task[t].exc) \/ Top(task[t]).fn # "wrap"
    /\ ~RefreshHandles(Top(task[t]), task[t].exc, data)
    /\ Apply(t, Eff(UnwindFinally(kia, Top(task[t])), Pop(task[t])))
    /\ obs' = [obs EXCEPT ![t] = LoginRaised(
                  [@ EXCEPT !.fetchExc =
                      IF Top(task[t]).fn = "refresh" /\ Top(task[t]).pc = "got"
                      THEN task[t].exc ELSE @],
                  Top(task[t]), task[t])]
    /\ hass' = LockExit(hass, Top(task[t]))
    /\ UNCHANGED <<gen, hyu, data, now, hist, conv, registry, adapter>>

\* async_setup_entry: the entry is set up once the connection is built, and it
\* is dropped when the first refresh of the vehicle's coordinator fails
EntrySetUp(tk, d, was) ==
    CASE tk.op = "setup" /\ tk.exc = None -> TRUE
      [] tk.op = "refresh" /\ tk.exc # None /\ d = NoData -> FALSE
      [] OTHER -> was

\* the operation has returned or raised to its caller
TaskEnd(t) ==
    /\ running = t
    /\ task[t].st = "run"
    /\ task[t].stack = <<>>
    /\ task' = [task EXCEPT ![t].st = "done",
                            ![t].out = IF task[t].exc = None THEN "ok" ELSE task[t].exc,
                            ![t].exc = None]
    /\ running' = 0
    /\ hist' = [hist EXCEPT !.setup = EntrySetUp(task[t], data, @)]
    /\ UNCHANGED <<kia, gen, hyu, hass, data, obs, now, conv, registry, adapter>>

\* the vendor answers a request sent through request_with_logging
Respond(t) ==
    /\ running = 0
    /\ task[t].st = "http"
    /\ Top(task[t]).fn = "req"
    /\ \E r \in Answers(task[t].rq) :
          LET e == RequestWithLogging(kia, [task[t] EXCEPT !.st = "run", !.rq = None], r)
          IN /\ Apply(t, e)
             /\ obs' = [obs EXCEPT ![t] = ObsAnswer(@, task[t].rq, r)]
             /\ Track(t, e.kia)
    /\ UNCHANGED <<gen, hyu, hass, data, now, conv, registry, adapter>>

\* the vendor answers with statusCode 0
RespondOk(t) ==
    /\ running = 0
    /\ task[t].st = "http"
    /\ Top(task[t]).fn = "req"
    /\ \E r \in OkAnswers(task[t].rq) :
          LET e == RequestWithLogging(kia, [task[t] EXCEPT !.st = "run", !.rq = None], r)
          IN /\ Apply(t, e)
             /\ obs' = [obs EXCEPT ![t] = ObsAnswer(@, task[t].rq, r)]
             /\ Track(t, e.kia)
    /\ UNCHANGED <<gen, hyu, hass, data, now, conv, registry, adapter>>

\* the vendor answers the status request (gvi) with a snapshot whose targetSOC
\* entries come in any order
RespondSoc(t) ==
    /\ running = 0
    /\ task[t].st = "http"
    /\ Top(task[t]).fn = "req"
    /\ task[t].rq = "gvi"
    /\ \E l \in SocLists :
          LET r == [Resp("ok") EXCEPT !.snap = [NoData EXCEPT !.payload = "d1", !.soc = l]]
              e == RequestWithLogging(kia, [task[t] EXCEPT !.st = "run", !.rq = None], r)
          IN /\ Apply(t, e)
             /\ obs' = [obs EXCEPT ![t] = [ObsAnswer(@, task[t].rq, r) EXCEPT !.socSent = l]]
             /\ Track(t, e.kia)
    /\ UNCHANGED <<gen, hyu, hass, data, now, conv, registry, adapter>>

\* the vendor is unavailable for a moment: any other error answer, or an
\* aiohttp ClientError
RespondUnavailable(t) ==
    /\ running = 0
    /\ task[t].st = "http"
    /\ Top(task[t]).fn = "req"
    /\ LET e == RequestWithLogging(kia, [task[t] EXCEPT !.st = "run", !.rq = None], Resp("err"))
       IN /\ Apply(t, e)
          /\ obs' = [obs EXCEPT ![t] = ObsAnswer(@, task[t].rq, Resp("err"))]
          /\ Track(t, e.kia)
    /\ UNCHANGED <<gen, hyu, hass, data, now, conv, registry, adapter>>

\* the vendor answers the direct post of _complete_login_with_otp
RespondDirect(t) ==
    /\ running = 0
    /\ task[t].st = "http"
    /\ Top(task[t]).fn = "complete"
    /\ \E r \in DirectAnswers :
          /\ Apply(t, Eff(kia, [task[t] EXCEPT !.st = "run", !.rq = None, !.ret = r]))
          /\ obs' = [obs EXCEPT ![t] = ObsAnswer(@, task[t].rq, r)]
    /\ UNCHANGED <<gen, hyu, hass, data, now, hist, conv, registry, adapter>>

\* the config flow's otp_callback looks for the code once a second:
\* for i in range(120)
OTP_WAIT_POLLS == 120

\* the config flow's otp_callback has looked for the code and found none:
\* await asyncio.sleep(1)
CallbackWait(t) ==
    /\ running = 0
    /\ task[t].st = "cb"
    /\ task[t].rq = "input_code"
    /\ kia.otp_callback = "interactive"
    /\ task[t].wait < OTP_WAIT_POLLS
    /\ task' = [task EXCEPT ![t].wait = @ + 1]
    /\ UNCHANGED <<kia, gen, hyu, hass, data, running, obs, now, hist, conv, registry, adapter>>

\* the config flow's otp_callback returns: the destination the user chose in
\* the form at once, the code as soon as one of its looks finds it
CallbackAnswer(t) ==
    /\ running = 0
    /\ task[t].st = "cb"
    /\ kia.otp_callback = "interactive"
    /\ task[t].wait < OTP_WAIT_POLLS
    /\ \E v \in IF task[t].rq = "choose_destination" THEN DestinationAnswers ELSE CodeAnswers :
          Apply(t, Eff(kia, [task[t] EXCEPT !.st = "run", !.rq = None, !.wait = 0,
                                           !.ret = [Resp("cb") EXCEPT !.val = v]]))
    /\ UNCHANGED <<gen, hyu, hass, data, obs, now, hist, conv, registry, adapter>>

\* what otp_callback raises when it gives up
CallbackTimeout == "ConfigEntryAuthFailed"

\* otp_callback raises: the dummy callback of entry setup at once, the config
\* flow's after its last look for the code
CallbackRaise(t) ==
    /\ running = 0
    /\ task[t].st = "cb"
    /\ \/ kia.otp_callback = "entry_setup"
       \/ task[t].rq = "input_code" /\ task[t].wait = OTP_WAIT_POLLS
    /\ Apply(t, Eff(kia, [task[t] EXCEPT !.st = "run", !.rq = None, !.wait = 0,
                                         !.exc = CallbackTimeout]))
    /\ obs' = [obs EXCEPT ![t].otpTimeout = kia.otp_callback = "interactive"]
    /\ UNCHANGED <<gen, hyu, hass, data, now, hist, conv, registry, adapter>>

\* asyncio.sleep(DELAY_BETWEEN_ACTION_IN_PROGRESS_CHECKING) is over
Wake(t) ==
    /\ running = 0
    /\ task[t].st = "sleep"
    /\ Apply(t, Eff(kia, [task[t] EXCEPT !.st = "run"]))
    /\ UNCHANGED <<gen, hyu, hass, data, obs, now, hist, conv, registry, adapter>>

\* _get_or_create_api_connection between awaits
GetOrCreateStep(t) ==
    /\ At(t, "get_or_create")
    /\ \E rt \in {None, "rm0"} :
          LET e == GetOrCreateNext(kia, hass, task[t], t, rt)
          IN /\ Apply(t, e)
             /\ hass' = e.hass
    /\ UNCHANGED <<gen, hyu, data, obs, now, hist, conv, registry, adapter>>

\* the task waiting in lock.acquire() is woken once the lock has been released
LockAcquired(t) ==
    /\ running = 0
    /\ task[t].st = "lock"
    /\ LockFree(hass)
    /\ task' = [task EXCEPT ![t].st = "run"]
    /\ running' = t
    /\ UNCHANGED <<kia, gen, hyu, hass, data, obs, now, hist, conv, registry, adapter>>

\* the vehicles the callers ask for
OpVehicles == {"A"}

WrappedOps ==
    {"get_vehicles", "get_cached_vehicle_status", "request_vehicle_data_sync",
     "check_last_action_finished"} \cup CommandNames

BeginFrom(t, op, vid, f, found) ==
    /\ running = 0
    /\ task[t].st \in {"idle", "done"}
    /\ task' = [task EXCEPT ![t] = [IdleTask EXCEPT !.st = "run", !.op = op, !.vid = vid,
                                                    !.stack = <<f>>]]
    /\ running' = t
    /\ obs' = [obs EXCEPT ![t] = [NoObs EXCEPT !.prevData = data,
                                               !.startRejected = hist.rejected,
                                               !.startInBuffer = InBuffer(hist.tokenExp, now),
                                               !.found = found]]
    /\ UNCHANGED <<kia, gen, hyu, hass, data, now, hist, conv, registry, adapter>>

Begin(t, op, vid, f) == BeginFrom(t, op, vid, f, NothingFound)

\* a caller awaits api_connection.login() (entry setup, config flow)
StartLogin(t) == Begin(t, "login", None, Frame("login", "start", None, None))

\* a caller awaits one of the decorated operations of UsKia
StartGetVehicles(t) == Begin(t, "get_vehicles", None, WrapFrame("get_vehicles", None))

\* an entity, a service or the coordinator awaits an operation of the shared
\* connection, the object that entry setup built with its dummy otp_callback
StartOp(t) ==
    /\ kia.otp_callback = "entry_setup"
    /\ \E op \in WrappedOps \ {"get_vehicles"}, vid \in OpVehicles :
          Begin(t, op, vid, WrapFrame(op, vid))

\* the same, with what a command finds kept for later (history)
StartOpFrom(t) ==
    /\ kia.otp_callback = "entry_setup"
    /\ \E op \in WrappedOps \ {"get_vehicles"}, vid \in OpVehicles :
          BeginFrom(t, op, vid, WrapFrame(op, vid),
                    IF op \in CommandNames THEN Found(kia) ELSE NothingFound)

\* the coordinator's update interval fires
StartRefresh(t) ==
    /\ kia.otp_callback = "entry_setup"
    /\ \E vid \in OpVehicles : Begin(t, "refresh", vid, Frame("refresh", "loop", vid, "kia"))

\* the steps of the client that every caller can reach
ClientRun(t) ==
    \/ RequestStep(t) \/ LoginStep(t) \/ GetVehiclesStep(t) \/ FindVehicleKeyStep(t)
    \/ ClafStep(t) \/ CommandStep(t) \/ WrapperStep(t) \/ WrapperCatch(t)
    \/ Unwind(t) \/ TaskEnd(t) \/ CallbackRaise(t)

ClientStep(t) == ClientRun(t) \/ Respond(t)

\* the OTP steps behind a callback that answers
OtpStep(t) ==
    \/ CallbackAnswer(t) \/ CallbackWait(t) \/ SendOtpStep(t) \/ VerifyOtpStep(t)
    \/ CompleteLoginStep(t) \/ RespondDirect(t)

\* ------------------------------------------------------------- UsGenesis
\* expires_in of the tokens the vendor issues, in seconds
TokenLifetime == 600

\* the clock advances in steps of TickSeconds up to MaxNow
TickSeconds == 300
MaxNow == 900

AccessTokens == {"t1"}

\* answers to the oauth/token request: a token with or without expires_in, or
\* an answer without a token that names the PIN lock or another reason, and
\* carries no errorCode ("ok"), errorCode 401/403/1003/1005 ("auth") or
\* another errorCode ("err")
TokenAnswers ==
    {[Resp("ok") EXCEPT !.sid = a, !.ttl = x] : a \in AccessTokens, x \in {{}, {TokenLifetime}}}
    \cup {[Resp("ok") EXCEPT !.val = m] : m \in {"PIN LOCKED", "denied"}}
    \cup {[Resp(c) EXCEPT !.val = "PIN LOCKED"] : c \in {"auth", "err"}}

\* what the vendor may answer through request_with_logging_bluelink: "auth" is
\* a non-JSON answer or errorCode 401/403/1003/1005, "err" any other errorCode
GenesisAnswers(rq) ==
    {Resp("auth"), Resp("err")} \cup
    CASE rq = "token" -> TokenAnswers
      [] rq = "details" -> {[Resp("ok") EXCEPT !.vl = l] : l \in VehicleLists}
      [] rq = "cmd" -> {Resp("ok")}
      [] OTHER -> {[Resp("ok") EXCEPT !.snap = [NoData EXCEPT !.payload = p]] : p \in Payloads}

GEff(g, tk) == [gen |-> g, tk |-> tk]

\* request_with_logging_bluelink
RequestWithLoggingBluelink(g, tk, r) ==
    CASE r.k = "ok" -> GEff(g, Return(tk, r))
      [] r.k = "auth" -> GEff(g, Raise(tk, "AuthError"))
      [] OTHER -> GEff(g, Raise(tk, "ClientError"))

GenesisReqFrame(rq) == Frame("g_req", "start", None, rq)

\* _is_token_valid; token_expires_at is the empty set (None) or holds the instant
IsTokenValid(g, t) ==
    /\ g.access_token # None
    /\ \A at \in g.token_expires_at : t < at - TOKEN_REFRESH_BUFFER_SECONDS

\* "PIN" in error_msg.upper() and "LOCKED" in error_msg.upper()
NamesPinLock(msg) == msg = "PIN LOCKED"

\* UsGenesis.login
GenesisLoginNext(g, tk, t) ==
    LET r == tk.ret
    IN IF Top(tk).pc = "start"
       THEN GEff(g, Call(tk, "resp", GenesisReqFrame("token")))
       ELSE IF r.sid # None
            THEN GEff([g EXCEPT !.access_token = r.sid,
                                !.token_expires_at = {t + x : x \in r.ttl}],
                      Return(tk, r))
            ELSE IF NamesPinLock(r.val)
                 THEN GEff(g, Raise(tk, "PINLockedError"))
                 ELSE GEff(g, Raise(tk, "AuthError"))

\* _ensure_token_valid clears the token and keeps the expiry
EnsureTokenValidNextMutKeepsExpiry(g, tk, t) ==
    IF Top(tk).pc = "start"
    THEN IF IsTokenValid(g, t)
         THEN GEff(g, Return(tk, tk.ret))
         ELSE GEff([g EXCEPT !.access_token = None],
                   Call(tk, "back", Frame("g_login", "start", None, None)))
    ELSE GEff(g, Return(tk, tk.ret))

\* _ensure_token_valid
EnsureTokenValidNext(g, tk, t) ==
    IF Top(tk).pc = "start"
    THEN IF IsTokenValid(g, t)
         THEN GEff(g, Return(tk, tk.ret))
         ELSE GEff([g EXCEPT !.access_token = None, !.token_expires_at = {}],
                   Call(tk, "back", Frame("g_login", "start", None, None)))
    ELSE GEff(g, Return(tk, tk.ret))

EnsureFrame == Frame("g_ensure", "start", None, None)

\* UsGenesis.get_vehicles
GenesisGetVehiclesNext(g, tk) ==
    LET f == Top(tk)
    IN CASE f.pc = "start" -> GEff(g, Call(tk, "req", EnsureFrame))
         [] f.pc = "req" -> GEff(g, Call(tk, "resp", GenesisReqFrame("details")))
         [] OTHER -> GEff([g EXCEPT !.vehicles = tk.ret.vl], Return(tk, tk.ret))

\* UsGenesis.find_vehicle
FindVehicleNext(g, tk) ==
    LET f == Top(tk)
    IN IF f.pc = "start" /\ g.vehicles = NoVehicles
       THEN GEff(g, Call(tk, "look", Frame("g_get_vehicles", "start", None, None)))
       ELSE IF g.vehicles # NoVehicles /\ f.vid \in g.vehicles
            THEN GEff(g, Return(tk, tk.ret))
            ELSE GEff(g, Raise(tk, "ValueError"))

\* UsGenesis.get_cached_vehicle_status: the status request, then the details
GenesisStatusNext(g, tk) ==
    LET f == Top(tk)
    IN CASE f.pc = "start" -> GEff(g, Call(tk, "find", EnsureFrame))
         [] f.pc = "find" ->
              GEff(g, Call(tk, "status", Frame("g_find_vehicle", "start", f.vid, None)))
         [] f.pc = "status" -> GEff(g, Call(tk, "details", GenesisReqFrame("vehicleStatus")))
         [] f.pc = "details" ->
              GEff(g, Call([tk EXCEPT !.stack[Len(tk.stack)].a = tk.ret.snap.payload],
                           "resp", GenesisReqFrame("details")))
         [] OTHER ->
              GEff(g, Return(tk, [Resp("ok") EXCEPT !.snap = [NoData EXCEPT !.payload = f.a]]))

\* UsGenesis.lock, unlock (the other commands alike around another request)
GenesisCommandNext(g, tk) ==
    LET f == Top(tk)
    IN CASE f.pc = "start" -> GEff(g, Call(tk, "find", EnsureFrame))
         [] f.pc = "find" ->
              GEff(g, Call(tk, "send", Frame("g_find_vehicle", "start", f.vid, None)))
         [] f.pc = "send" -> GEff(g, Call(tk, "resp", GenesisReqFrame("cmd")))
         [] OTHER -> GEff(g, Return(tk, tk.ret))

\* UsGenesis.check_last_action_finished, UsHyundai.check_last_action_finished
BluelinkClafNext(g, tk) == GEff(g, Return(tk, [Resp("ok") EXCEPT !.fin = TRUE]))

\* _get_or_create_api_connection for a Genesis entry: login(), then get_vehicles()
GenesisSetupNext(g, tk) ==
    LET f == Top(tk)
    IN CASE f.pc = "start" -> GEff(g, Call(tk, "logged", Frame("g_login", "start", None, None)))
         [] f.pc = "logged" ->
              GEff(g, Call(tk, "listed", Frame("g_get_vehicles", "start", None, None)))
         [] OTHER -> GEff(g, Return(tk, tk.ret))

\* history of a Bluelink session: the vendor rejected its token (and no login
\* has succeeded since), and the instant the vendor lets the token expire
BluelinkAnswered(h, rq, r, t) ==
    IF rq = "token"
    THEN IF r.k = "ok" /\ r.sid # None
         THEN [h EXCEPT !.rejected = FALSE, !.tokenExp = {t + x : x \in r.ttl}]
         ELSE h
    ELSE [h EXCEPT !.rejected = @ \/ r.k = "auth"]

\* what the operation has sent and been answered (history)
BluelinkObsAnswer(o, rq, r) ==
    [o EXCEPT !.rejectedAgain = @ \/ (rq # "token" /\ r.k = "auth"),
              !.loggedIn = @ \/ (rq = "token" /\ r.k = "ok" /\ r.sid # None),
              !.pinAnswer = @ \/ (rq = "token" /\ r.sid = None /\ NamesPinLock(r.val))]

BluelinkObsSend(o, rq) ==
    [o EXCEPT !.loginSent = @ \/ rq = "token", !.listSent = @ \/ rq = "details"]

GApply(t, e) ==
    /\ gen' = e.gen
    /\ task' = [task EXCEPT ![t] = e.tk]
    /\ running' = IF e.tk.st = "run" THEN t ELSE 0

GStep(t, e) ==
    /\ GApply(t, e)
    /\ UNCHANGED <<kia, hyu, hass, data, obs, now, hist, conv, registry, adapter>>

GenesisLoginStep(t) ==
    /\ At(t, "g_login")
    /\ LET e == GenesisLoginNext(gen, task[t], now)
       IN /\ GApply(t, e)
          /\ hist' = [hist EXCEPT !.pinLocked =
                          CASE e.tk.exc = "PINLockedError" -> TRUE
                            [] e.tk.exc = None /\ Len(e.tk.stack) < Len(task[t].stack) -> FALSE
                            [] OTHER -> @]
          /\ obs' = [obs EXCEPT ![t] = LoginRaised(@, Top(task[t]), e.tk)]
    /\ UNCHANGED <<kia, hyu, hass, data, now, conv, registry, adapter>>

EnsureTokenValidStep(t) == At(t, "g_ensure") /\ GStep(t, EnsureTokenValidNext(gen, task[t], now))
GenesisGetVehiclesStep(t) == At(t, "g_get_vehicles") /\ GStep(t, GenesisGetVehiclesNext(gen, task[t]))
FindVehicleStep(t) == At(t, "g_find_vehicle") /\ GStep(t, FindVehicleNext(gen, task[t]))
GenesisSetupStep(t) == At(t, "g_setup") /\ GStep(t, GenesisSetupNext(gen, task[t]))

GenesisCommandStep(t) == At(t, "g_cmd") /\ GStep(t, GenesisCommandNext(gen, task[t]))

GenesisClafStep(t) ==
    /\ At(t, "check_last_action_finished")
    /\ Top(task[t]).name = "genesis"
    /\ GStep(t, BluelinkClafNext(gen, task[t]))

GenesisStatusStep(t) ==
    /\ At(t, "get_cached_vehicle_status")
    /\ Top(task[t]).name = "genesis"
    /\ GStep(t, GenesisStatusNext(gen, task[t]))

\* the request leaves: api_session.post / api_session.get
GenesisRequestStep(t) ==
    /\ At(t, "g_req")
    /\ GApply(t, GEff(gen, Suspend(SetPc(task[t], "recv"), "http", Top(task[t]).name)))
    /\ obs' = [obs EXCEPT ![t] = BluelinkObsSend(@, Top(task[t]).name)]
    /\ UNCHANGED <<kia, hyu, hass, data, now, hist, conv, registry, adapter>>

GenesisRespond(t) ==
    /\ running = 0
    /\ task[t].st = "http"
    /\ Top(task[t]).fn = "g_req"
    /\ \E r \in GenesisAnswers(task[t].rq) :
          /\ GApply(t, RequestWithLoggingBluelink(gen, [task[t] EXCEPT !.st = "run", !.rq = None], r))
          /\ obs' = [obs EXCEPT ![t] = BluelinkObsAnswer(@, task[t].rq, r)]
          /\ hist' = BluelinkAnswered(hist, task[t].rq, r, now)
    /\ UNCHANGED <<kia, hyu, hass, data, now, conv, registry, adapter>>

\* refresh() of a coordinator whose api_connection is the UsGenesis object
GenesisRefreshStep(t) ==
    /\ At(t, "refresh")
    /\ Top(task[t]).name = "genesis"
    /\ LET e == RefreshNext(gen, task[t])
       IN /\ GApply(t, [gen |-> e.kia, tk |-> e.tk])
          /\ data' = IF Len(e.tk.stack) < Len(task[t].stack) THEN e.tk.ret.snap ELSE data
    /\ UNCHANGED <<kia, hyu, hass, obs, now, hist, conv, registry, adapter>>

Tick ==
    /\ running = 0
    /\ now + TickSeconds <= MaxNow
    /\ now' = now + TickSeconds
    /\ UNCHANGED <<kia, gen, hyu, hass, data, task, obs, running, hist, conv, registry, adapter>>

\* entry setup of a Genesis account, repeated (a reload, a reauth) until it holds
StartGenesisSetup(t) ==
    /\ ~hist.setup
    /\ Begin(t, "setup", None, Frame("g_setup", "start", None, None))

\* the update interval of the Genesis coordinator fires
StartGenesisRefresh(t) ==
    /\ hist.setup
    /\ \E vid \in OpVehicles : Begin(t, "refresh", vid, Frame("refresh", "loop", vid, "genesis"))

\* an entity or a service awaits a command of the Genesis connection, or a
\* caller its check_last_action_finished
StartGenesisOp(t) ==
    /\ hist.setup
    /\ \E vid \in OpVehicles :
          \/ \E op \in LockCommands : Begin(t, op, vid, Frame("g_cmd", "start", vid, op))
          \/ Begin(t, "check_last_action_finished", vid,
                   ConnectionFrame("genesis", "check_last_action_finished", vid))

GenesisStep(t) ==
    \/ GenesisLoginStep(t) \/ EnsureTokenValidStep(t) \/ GenesisGetVehiclesStep(t)
    \/ FindVehicleStep(t) \/ GenesisSetupStep(t) \/ GenesisStatusStep(t)
    \/ GenesisCommandStep(t) \/ GenesisClafStep(t)
    \/ GenesisRequestStep(t) \/ GenesisRespond(t)

\* ------------------------------------------------------------- UsHyundai
HEff(h, tk) == [hyu |-> h, tk |-> tk]

HyundaiReqFrame(rq) == Frame("h_req", "start", None, rq)

\* UsHyundai.login: the token is stored, expires_in is not read
HyundaiLoginNext(h, tk) ==
    LET r == tk.ret
    IN IF Top(tk).pc = "start"
       THEN HEff(h, Call(tk, "resp", HyundaiReqFrame("token")))
       ELSE IF r.sid # None
            THEN HEff([h EXCEPT !.access_token = r.sid], Return(tk, r))
            ELSE HEff(h, Raise(tk, "AuthError"))

\* if self.access_token is None: await self.login(), at the head of an operation
HyundaiTokenGuard(h, tk, pc) ==
    IF h.access_token = None
    THEN HEff(h, Call(tk, pc, Frame("h_login", "start", None, None)))
    ELSE HEff(h, SetPc(tk, pc))

\* UsHyundai.get_vehicles
HyundaiGetVehiclesNext(h, tk) ==
    LET f == Top(tk)
    IN CASE f.pc = "start" -> HyundaiTokenGuard(h, tk, "req")
         [] f.pc = "req" -> HEff(h, Call(tk, "resp", HyundaiReqFrame("details")))
         [] OTHER -> HEff([h EXCEPT !.vehicles = tk.ret.vl], Return(tk, tk.ret))

\* UsHyundai.find_vehicle
HyundaiFindVehicleNext(h, tk) ==
    LET f == Top(tk)
    IN IF f.pc = "start" /\ h.vehicles = NoVehicles
       THEN HEff(h, Call(tk, "look", Frame("h_get_vehicles", "start", None, None)))
       ELSE IF h.vehicles # NoVehicles /\ f.vid \in h.vehicles
            THEN HEff(h, Return(tk, tk.ret))
            ELSE HEff(h, Raise(tk, "ValueError"))

\* UsHyundai.lock, unlock (the other commands alike around another request)
HyundaiCommandNext(h, tk) ==
    LET f == Top(tk)
    IN CASE f.pc = "start" -> HyundaiTokenGuard(h, tk, "find")
         [] f.pc = "find" ->
              HEff(h, Call(tk, "send", Frame("h_find_vehicle", "start", f.vid, None)))
         [] f.pc = "send" -> HEff(h, Call(tk, "resp", HyundaiReqFrame("cmd")))
         [] OTHER -> HEff(h, Return(tk, tk.ret))

\* _get_or_create_api_connection for a Hyundai entry: login(), then get_vehicles()
HyundaiSetupNext(h, tk) ==
    LET f == Top(tk)
    IN CASE f.pc = "start" -> HEff(h, Call(tk, "logged", Frame("h_login", "start", None, None)))
         [] f.pc = "logged" ->
              HEff(h, Call(tk, "listed", Frame("h_get_vehicles", "start", None, None)))
         [] OTHER -> HEff(h, Return(tk, tk.ret))

HApply(t, e) ==
    /\ hyu' = e.hyu
    /\ task' = [task EXCEPT ![t] = e.tk]
    /\ running' = IF e.tk.st = "run" THEN t ELSE 0

HStep(t, e) ==
    /\ HApply(t, e)
    /\ UNCHANGED <<kia, gen, hass, data, obs, now, hist, conv, registry, adapter>>

HyundaiLoginStep(t) ==
    /\ At(t, "h_login")
    /\ LET e == HyundaiLoginNext(hyu, task[t])
       IN /\ HApply(t, e)
          /\ obs' = [obs EXCEPT ![t] = LoginRaised(@, Top(task[t]), e.tk)]
    /\ UNCHANGED <<kia, gen, hass, data, now, hist, conv, registry, adapter>>
HyundaiGetVehiclesStep(t) == At(t, "h_get_vehicles") /\ HStep(t, HyundaiGetVehiclesNext(hyu, task[t]))
HyundaiFindVehicleStep(t) == At(t, "h_find_vehicle") /\ HStep(t, HyundaiFindVehicleNext(hyu, task[t]))
HyundaiCommandStep(t) == At(t, "h_cmd") /\ HStep(t, HyundaiCommandNext(hyu, task[t]))
HyundaiSetupStep(t) == At(t, "h_setup") /\ HStep(t, HyundaiSetupNext(hyu, task[t]))

HyundaiClafStep(t) ==
    /\ At(t, "h_check_last_action_finished")
    /\ LET e == BluelinkClafNext(hyu, task[t]) IN HStep(t, HEff(e.gen, e.tk))

\* the request leaves: api_session.post / api_session.get
HyundaiRequestStep(t) ==
    /\ At(t, "h_req")
    /\ HApply(t, HEff(hyu, Suspend(SetPc(task[t], "recv"), "http", Top(task[t]).name)))
    /\ obs' = [obs EXCEPT ![t] = BluelinkObsSend(@, Top(task[t]).name)]
    /\ UNCHANGED <<kia, gen, hass, data, now, hist, conv, registry, adapter>>

HyundaiRespond(t) ==
    /\ running = 0
    /\ task[t].st = "http"
    /\ Top(task[t]).fn = "h_req"
    /\ \E r \in GenesisAnswers(task[t].rq) :
          LET e == RequestWithLoggingBluelink(hyu, [task[t] EXCEPT !.st = "run", !.rq = None], r)
          IN /\ HApply(t, HEff(e.gen, e.tk))
             /\ obs' = [obs EXCEPT ![t] = BluelinkObsAnswer(@, task[t].rq, r)]
             /\ hist' = BluelinkAnswered(hist, task[t].rq, r, now)
    /\ UNCHANGED <<kia, gen, hass, data, now, conv, registry, adapter>>

\* entry setup of a Hyundai account, repeated until it holds
StartHyundaiSetup(t) ==
    /\ ~hist.setup
    /\ Begin(t, "setup", None, Frame("h_setup", "start", None, None))

\* a caller awaits an operation of the Hyundai connection
StartHyundaiOp(t) ==
    /\ hist.setup
    /\ \/ Begin(t, "get_vehicles", None, Frame("h_get_vehicles", "start", None, None))
       \/ \E vid \in OpVehicles :
             \/ \E op \in LockCommands : Begin(t, op, vid, Frame("h_cmd", "start", vid, op))
             \/ Begin(t, "check_last_action_finished", vid,
                      Frame("h_check_last_action_finished", "start", vid, None))

HyundaiStep(t) ==
    \/ HyundaiLoginStep(t) \/ HyundaiGetVehiclesStep(t) \/ HyundaiFindVehicleStep(t)
    \/ HyundaiCommandStep(t) \/ HyundaiSetupStep(t) \/ HyundaiClafStep(t)
    \/ HyundaiRequestStep(t) \/ HyundaiRespond(t)

\* ------------------------------------------------- the response envelope
\* the Content-Type header of a response as its parts; <<>> is no header
ContentTypes ==
    {<<"application/json">>, <<"application/json", "charset=UTF-8">>,
     <<"text/html">>, <<"text/html", "charset=UTF-8">>, <<>>}

\* "application/json" in content_type
DeclaresJson(ct) == \E i \in 1..Len(ct) : ct[i] = "application/json"

\* errorCode 1003, 1005, 1037, 1165: the session is invalid
SessionErrorCodes == {1003, 1005, 1037, 1165}
\* errorCode 1001, 1132: the vehicle cannot take the request
BusyErrorCodes == {1001, 1132}

\* bodies of the Kia vendor: the status object of a JSON body, or text that
\* is no JSON (json FALSE)
KiaBodies ==
    {[json |-> TRUE, statusCode |-> 0, errorType |-> 0, errorCode |-> 0]}
    \cup {[json |-> TRUE, statusCode |-> 1, errorType |-> ty, errorCode |-> c] :
             ty \in {1, 2}, c \in {1003, 1001, 9001}}
    \cup {[json |-> FALSE, statusCode |-> 0, errorType |-> 0, errorCode |-> 0]}

\* request_with_logging with the content-type test left out
KiaEnvelopeMutBodyFirst(ct, b) ==
    IF b.json /\ b.statusCode = 0 THEN "ok"
    ELSE IF ~b.json THEN "auth"
    ELSE IF b.errorType = 1 /\ b.errorCode \in SessionErrorCodes THEN "auth"
    ELSE IF b.errorType = 1 /\ b.errorCode \in BusyErrorCodes THEN "busy"
    ELSE "err"

\* request_with_logging: what the wrapper makes of a response, Content-Type
\* first, then the status object of the body
KiaEnvelope(ct, b) ==
    IF ~DeclaresJson(ct) THEN "auth"
    ELSE IF b.statusCode = 0 THEN "ok"
    ELSE IF b.statusCode = 1 /\ b.errorType = 1 /\ b.errorCode \in SessionErrorCodes
         THEN "auth"
    ELSE IF b.statusCode = 1 /\ b.errorType = 1 /\ b.errorCode \in BusyErrorCodes
         THEN "busy"
    ELSE "err"

\* errorCode 401, 403, 1003, 1005 of the BlueLink vendor
BluelinkAuthCodes == {401, 403, 1003, 1005}

\* bodies of the BlueLink vendor: with or without an errorCode key
BluelinkBodies ==
    {[json |-> j, errorCode |-> c] : j \in BOOLEAN, c \in {{}, {0}, {401}, {500}}}

\* request_with_logging_bluelink: Content-Type first, then the errorCode
BluelinkEnvelope(ct, b) ==
    IF ~DeclaresJson(ct) THEN "auth"
    ELSE IF \E c \in b.errorCode : c # 0
         THEN IF b.errorCode \subseteq BluelinkAuthCodes THEN "auth" ELSE "err"
         ELSE "ok"

\* what the wrapper did with the response of content type ct (history)
ObsRaw(o, ct, ok, tk1) ==
    [o EXCEPT !.nonJson = ~DeclaresJson(ct), !.bodyOk = ok, !.raised = tk1.exc]

\* the Kia vendor (or whatever stands in front of it) answers a request with
\* any Content-Type and any body; a response that declares JSON carries JSON
RespondRaw(t) ==
    /\ running = 0
    /\ task[t].st = "http"
    /\ Top(task[t]).fn = "req"
    /\ \E ct \in ContentTypes, b \in KiaBodies, r \in OkAnswers(task[t].rq) :
          /\ DeclaresJson(ct) => b.json
          /\ LET kind == KiaEnvelope(ct, b)
                 ans == IF kind = "ok" THEN r ELSE Resp(kind)
                 e == RequestWithLogging(kia, [task[t] EXCEPT !.st = "run", !.rq = None], ans)
             IN /\ Apply(t, e)
                /\ obs' = [obs EXCEPT ![t] =
                              ObsRaw(ObsAnswer(@, task[t].rq, ans), ct,
                                     b.json /\ b.statusCode = 0, e.tk)]
                /\ Track(t, e.kia)
    /\ UNCHANGED <<gen, hyu, hass, data, now, conv, registry, adapter>>

\* the same for a request of the Hyundai client
HyundaiRespondRaw(t) ==
    /\ running = 0
    /\ task[t].st = "http"
    /\ Top(task[t]).fn = "h_req"
    /\ \E ct \in ContentTypes, b \in BluelinkBodies, r \in GenesisAnswers(task[t].rq) :
          /\ r.k = "ok"
          /\ DeclaresJson(ct) => b.json
          /\ LET kind == BluelinkEnvelope(ct, b)
                 ans == IF kind = "ok" THEN r ELSE Resp(kind)
                 e == RequestWithLoggingBluelink(hyu, [task[t] EXCEPT !.st = "run", !.rq = None],
                                                 ans)
             IN /\ HApply(t, HEff(e.gen, e.tk))
                /\ obs' = [obs EXCEPT ![t] =
                              ObsRaw(BluelinkObsAnswer(@, task[t].rq, ans), ct,
                                     b.json /\ b.errorCode \subseteq {0}, e.tk)]
                /\ hist' = BluelinkAnswered(hist, task[t].rq, ans, now)
    /\ UNCHANGED <<kia, gen, hass, data, now, conv, registry, adapter>>

AllQuiet == \A t \in Tasks : task[t].st \in {"idle", "done"}

\* hass.data[DOMAIN] before any entry of the account is set up
NoConnection ==
    [lock |-> 0, conn |-> None, by |-> 0, made |-> 0, first |-> None, brand |-> "kia"]

\* config_entry.data[CONF_BRAND]
Brands == {"kia", "hyundai", "genesis"}

\* UsHyundai's class attributes; __init__ sets none of them
NewHyundai == [access_token |-> None, vehicles |-> NoVehicles, last_action |-> NoAction]

\* the config entries, each of its own account (brand, username)
Entries == {"A", "B"}

\* hass.data has no DOMAIN key and no entry is loaded
NoRegistry ==
    [domain |-> FALSE,
     conn |-> [e \in Entries |-> FALSE],
     lock |-> [e \in Entries |-> FALSE],
     coordinators |-> {},
     pc |-> [e \in Entries |-> "not_loaded"],
     fresh |-> [e \in Entries |-> FALSE],
     unloaded |-> [e \in Entries |-> FALSE],
     after_unload |-> [e \in Entries |-> FALSE]]

\* EUApiAdapter.__init__: no pending action; no order at the vendor, refresh()
\* not running, no adapter call awaited by a caller, none made so far
MaxAdapterCalls == 2

\* the adapter's _last_action is None; an action id is a set, empty for
\* "xid": None
NoAdapterAction == [name |-> None, xid |-> {}]

NewAdapter ==
    [last_action |-> NoAdapterAction, order |-> [x \in 1..MaxAdapterCalls |-> "none"],
     refresh |-> "idle", checked |-> 0, call |-> None, calls |-> 0]

\* everything but the UsKia object, hass.data and the conversions
InitCore ==
    /\ registry = NoRegistry
    /\ adapter = NewAdapter
    /\ gen = [access_token |-> None, token_expires_at |-> {}, vehicles |-> NoVehicles,
              last_action |-> NoAction]
    /\ hyu = NewHyundai
    /\ data = NoData
    /\ task = [t \in Tasks |-> IdleTask]
    /\ running = 0
    /\ obs = [t \in Tasks |-> NoObs]
    /\ now = 0
    /\ hist = [pinLocked |-> FALSE, setup |-> FALSE, owner |-> None,
               rejected |-> FALSE, tokenExp |-> {}]

\* no conversion has been called, the cache of seat level mappings is empty
NoConv == [fn |-> None, arg |-> [for |-> None], res |-> None, mappings |-> {},
           reported |-> FALSE]

\* everything but the UsKia object and hass.data
InitObjects ==
    /\ conv = NoConv
    /\ InitCore

\* everything but the UsKia object
InitRest == hass = NoConnection /\ InitObjects

Init ==
    /\ kia \in {NewKia(rt, cb) : rt \in {None, "rm0"}, cb \in {"interactive", "entry_setup"}}
    /\ InitRest

\* one caller at a time, every operation awaited before the next is started:
\* the config flow's object (login, get_vehicles) or the shared connection
Next ==
    \/ AllQuiet /\ (StartLogin(1) \/ StartGetVehicles(1) \/ StartOp(1))
    \/ ClientStep(1) \/ OtpStep(1) \/ StatusStep(1) \/ SyncStep(1)

Spec == Init /\ [][Next]_vars

\* the event loop runs every task that can run; the vendor answers every
\* request (or the transport fails it) and the callback returns or raises
SpecFair == Spec /\ WF_vars(Next)

\* the coordinator of one vehicle on the shared connection: its periodic
\* refresh, and the commands its entities send in between
InitRefresh == Init /\ kia.otp_callback = "entry_setup"

\* an entity of the vehicle awaits a command of the shared connection
StartCommand(t, names) ==
    \E op \in names, vid \in OpVehicles : Begin(t, op, vid, WrapFrame(op, vid))

NextRefresh ==
    \/ AllQuiet /\ (StartRefresh(1) \/ StartCommand(1, {"lock"}))
    \/ ClientStep(1) \/ StatusStep(1) \/ RefreshStep(1) \/ RefreshExcept(1) \/ Wake(1)

SpecRefresh == InitRefresh /\ [][NextRefresh]_vars

\* the scheduler runs every task that can run; the vendor answers every request
SpecRefreshFair == SpecRefresh /\ WF_vars(NextRefresh)

\* the shared connection once entry setup has logged in and listed the vehicles
InitConc ==
    /\ kia = [NewKia(None, "entry_setup") EXCEPT !.session_id = "s1", !.vehicles = {"A", "B"}]
    /\ InitRest

\* the steps of a command while the session stays valid
CommandRun(t) ==
    \/ RequestStep(t) \/ FindVehicleKeyStep(t) \/ ClafStep(t) \/ CommandStep(t)
    \/ WrapperStep(t) \/ Unwind(t) \/ TaskEnd(t)

\* two callers (the lock entity, a service call) await commands of the shared
\* connection; each task runs until its next await
NextConc ==
    \E t \in Tasks : StartCommand(t, LockCommands) \/ CommandRun(t) \/ RespondOk(t)

SpecConc == InitConc /\ [][NextConc]_vars

\* the entities of both vehicles of the account send their commands over the
\* shared connection, one awaited before the next is started
StartVehicleCommand(t) ==
    \E op \in LockCommands, vid \in VehicleIds : Begin(t, op, vid, WrapFrame(op, vid))

NextVehicles ==
    \/ AllQuiet /\ StartVehicleCommand(1)
    \/ CommandRun(1) \/ RespondOk(1)

SpecVehicles == InitConc /\ [][NextVehicles]_vars

\* a connection that holds no session: the one entry setup builds, before login
InitLogin == kia = NewKia(None, "entry_setup") /\ InitRest

\* the steps of get_vehicles, the login it triggers included
LoginRun(t) ==
    \/ RequestStep(t) \/ LoginStep(t) \/ GetVehiclesStep(t) \/ WrapperStep(t)
    \/ WrapperCatch(t) \/ Unwind(t) \/ TaskEnd(t) \/ CallbackRaise(t)

\* two callers await get_vehicles of the same connection; each task runs until
\* its next await
NextLogin == \E t \in Tasks : StartGetVehicles(t) \/ LoginRun(t) \/ Respond(t)

SpecLogin == InitLogin /\ [][NextLogin]_vars

\* async_setup_entry of an entry of the account awaits the shared connection
StartGetOrCreate(t) ==
    /\ task[t].st = "idle"
    /\ Begin(t, "get_or_create", None, Frame("get_or_create", "start", None, None))

\* the entries of one Kia account are set up at the same time
NextSetup ==
    \E t \in Tasks :
        \/ StartGetOrCreate(t) \/ GetOrCreateStep(t) \/ LockAcquired(t)
        \/ LoginRun(t) \/ Respond(t)

SpecSetup == InitLogin /\ [][NextSetup]_vars

\* a Genesis account: entry setup, then the periodic refresh of its coordinator
NextGenesis ==
    \/ AllQuiet /\ (StartGenesisSetup(1) \/ StartGenesisRefresh(1) \/ StartGenesisOp(1))
    \/ GenesisStep(1) \/ GenesisRefreshStep(1) \/ RefreshExcept(1)
    \/ Unwind(1) \/ TaskEnd(1) \/ Tick

InitGenesis == kia = NewKia(None, "entry_setup") /\ InitRest

SpecGenesis == InitGenesis /\ [][NextGenesis]_vars

\* a Hyundai account: entry setup, then the operations its callers await
NextHyundai ==
    \/ AllQuiet /\ (StartHyundaiSetup(1) \/ StartHyundaiOp(1))
    \/ HyundaiStep(1) \/ Unwind(1) \/ TaskEnd(1) \/ Tick

InitHyundai == kia = NewKia(None, "entry_setup") /\ InitRest

SpecHyundai == InitHyundai /\ [][NextHyundai]_vars

\* the coordinator of a vehicle refreshes over a session that stays valid
\* while the vendor reports the charge limits in any order, or fails
NextSoc ==
    \/ AllQuiet /\ StartRefresh(1)
    \/ RequestStep(1) \/ FindVehicleKeyStep(1) \/ StatusStep(1) \/ WrapperStep(1)
    \/ RefreshStep(1) \/ RefreshExcept(1) \/ Unwind(1) \/ TaskEnd(1)
    \/ RespondSoc(1) \/ RespondUnavailable(1)

SpecSoc == InitConc /\ [][NextSoc]_vars

\* the connection of a config entry of any brand, before its first login
InitBrands ==
    /\ kia = NewKia(None, "entry_setup")
    /\ hass \in {[NoConnection EXCEPT !.brand = b] : b \in Brands}
    /\ InitObjects

\* the entry's brand picks the client class
Entry(b) == hass.brand = b

\* the callers of the entry's connection, one operation awaited at a time
NextBrands ==
    \/ Entry("kia") /\ AllQuiet /\ StartGetVehicles(1)
    \/ Entry("kia") /\ AllQuiet /\ StartOp(1)
    \/ Entry("kia") /\ ClientRun(1)
    \/ Entry("kia") /\ Respond(1)
    \/ Entry("kia") /\ StatusStep(1)
    \/ Entry("kia") /\ SyncStep(1)
    \/ Entry("hyundai") /\ AllQuiet /\ StartHyundaiSetup(1)
    \/ Entry("hyundai") /\ AllQuiet /\ StartHyundaiOp(1)
    \/ Entry("hyundai") /\ HyundaiStep(1)
    \/ Entry("genesis") /\ AllQuiet /\ StartGenesisSetup(1)
    \/ Entry("genesis") /\ AllQuiet /\ StartGenesisRefresh(1)
    \/ Entry("genesis") /\ AllQuiet /\ StartGenesisOp(1)
    \/ Entry("genesis") /\ GenesisStep(1)
    \/ Entry("genesis") /\ GenesisRefreshStep(1)
    \/ Entry("genesis") /\ RefreshExcept(1)
    \/ ~Entry("kia") /\ (Unwind(1) \/ TaskEnd(1) \/ Tick)

SpecBrands == InitBrands /\ [][NextBrands]_vars

\* task 1 lists the vehicles of a Kia connection and task 2 sets up a Hyundai
\* connection, while the vendors answer with any Content-Type and body
NextEnvelope ==
    \/ StartGetVehicles(1) \/ RequestStep(1) \/ LoginStep(1) \/ GetVehiclesStep(1)
    \/ WrapperStep(1) \/ WrapperCatch(1) \/ CallbackRaise(1) \/ RespondRaw(1)
    \/ StartHyundaiSetup(2) \/ HyundaiSetupStep(2) \/ HyundaiLoginStep(2)
    \/ HyundaiGetVehiclesStep(2) \/ HyundaiRequestStep(2) \/ HyundaiRespondRaw(2)
    \/ \E t \in Tasks : Unwind(t) \/ TaskEnd(t)

SpecEnvelope == InitLogin /\ [][NextEnvelope]_vars

\* ------------------------------------------------------------ properties
IsCommand(t) == task[t].op \in CommandNames

Done(t) == task[t].st = "done"

\* C1: a Kia command whose completion poll reports the pending action as not
\* finished sends no command request and ends with ActionAlreadyInProgressError;
\* once the poll has reported finished the command request is sent, and a
\* command that returns has recorded its own name and the Xid of its response
\* as the pending action.
C1_SequentialCommands ==
    \A t \in Tasks :
        IsCommand(t) =>
            /\ obs[t].pollNF =>
                  /\ ~obs[t].cmdSent
                  /\ Done(t) => task[t].out = "ActionAlreadyInProgressError"
            /\ obs[t].pollFin /\ Done(t) => obs[t].cmdSent
            /\ Done(t) /\ task[t].out = "ok" =>
                  /\ obs[t].cmdSent
                  /\ kia.last_action = [name |-> task[t].op, xid |-> obs[t].xid]

\* a command went out after the poll of the earlier one reported finished
C1_Witness ==
    \E t \in Tasks :
        /\ IsCommand(t) /\ Done(t) /\ task[t].out = "ok"
        /\ obs[t].pollFin
        /\ kia.last_action = [name |-> task[t].op, xid |-> obs[t].xid]

\* C2: an operation behind request_with_active_session that met an AuthError
\* has reset the session once and logged in once, however many decorated
\* operations it nests.
C2_OneRepairOneLogin ==
    \A t \in Tasks :
        task[t].op \in WrappedOps /\ obs[t].nRepair > 0 =>
            /\ obs[t].nRepair = 1
            /\ obs[t].nLoginAfter <= 1
            /\ Done(t) => obs[t].nLoginAfter = 1

\* the requests one operation can send when every answer is an auth error:
\* a command nests check_last_action_finished, which nests get_vehicles
RepairRequestBound == WrapperCalls * WrapperCalls * WrapperCalls

\* C3: when the vendor answers every request of a decorated operation with an
\* auth error the operation sends a bounded number of requests and ends by
\* raising AuthError.
AllAuthBounded ==
    \A t \in Tasks :
        task[t].op \in WrappedOps /\ obs[t].allAuth =>
            /\ obs[t].nReq <= RepairRequestBound
            /\ Done(t) /\ obs[t].nReq > 0 => task[t].out = "AuthError"

\* a decorated operation is under way and has had no answer but auth errors
AllAuthRunning(t) == task[t].op \in WrappedOps /\ ~Done(t) /\ obs[t].allAuth

C3_AllAuthErrorsBounded ==
    /\ []AllAuthBounded
    /\ \A t \in Tasks : AllAuthRunning(t) ~> ~AllAuthRunning(t)

\* a command spent every retry of every nested decorator and raised AuthError
C3_Witness ==
    \E t \in Tasks :
        /\ IsCommand(t) /\ Done(t) /\ task[t].out = "AuthError"
        /\ obs[t].allAuth /\ obs[t].nReq = RepairRequestBound

OtpOrder == <<"choose_destination", "sendOTP", "input_code", "verifyOTP", "completeLogin">>

\* login() went through the whole OTP path and returned
OtpLoginReturned(t) ==
    /\ task[t].op = "login" /\ Done(t) /\ task[t].out = "ok"
    /\ obs[t].otpLog = OtpOrder

\* C5: after a Kia login that went through the OTP challenge and returned,
\* session_id is the sid of the complete-login response, refresh_token the
\* rmtoken of the verify response, and otp_key, otp_xid, notify_type are None.
C5_OtpLoginSuccess ==
    \A t \in Tasks :
        OtpLoginReturned(t) =>
            /\ obs[t].finalSid \in Sids /\ kia.session_id = obs[t].finalSid
            /\ obs[t].rm \in RmTokens /\ kia.refresh_token = obs[t].rm
            /\ kia.otp_key = None /\ kia.otp_xid = None /\ kia.notify_type = None

C5_Witness ==
    \E t \in Tasks : OtpLoginReturned(t) /\ kia.session_id = "s2" /\ kia.refresh_token = "rm2"

InLogin(t) == \E i \in 1..Len(task[t].stack) : task[t].stack[i].fn = "login"

\* C6: whenever no login() is executing (it has returned or raised, by any
\* path), otp_key, otp_xid and notify_type are None.
C6_OtpFieldsCleared ==
    (\A t \in Tasks : ~InLogin(t)) =>
        kia.otp_key = None /\ kia.otp_xid = None /\ kia.notify_type = None

\* login() raised after the code had been sent for verification
C6_Witness ==
    \E t \in Tasks :
        /\ task[t].op = "login" /\ Done(t) /\ task[t].out # "ok"
        /\ Len(obs[t].otpLog) >= 4
        /\ kia.otp_key = None /\ kia.otp_xid = None /\ kia.notify_type = None

IsPrefix(s, q) == Len(s) <= Len(q) /\ s = SubSeq(q, 1, Len(s))

\* login is between the OTP challenge and its last two assignments
InOtpPath(t) ==
    \E i \in 1..Len(task[t].stack) :
        task[t].stack[i].fn = "login" /\ task[t].stack[i].pc \in LoginTryPcs

\* C7: the OTP steps run in the order destination callback, send-OTP, code
\* callback, verify-OTP, complete-login; session_id is never the provisional
\* sid and stays None until complete-login has returned a final sid; when
\* login fails on the OTP path session_id is None and refresh_token is the
\* old one or None.
C7_OtpStepOrder ==
    /\ kia.session_id \notin ProvisionalSids
    /\ \A t \in Tasks :
          /\ IsPrefix(obs[t].otpLog, OtpOrder)
          /\ InOtpPath(t) =>
                /\ kia.session_id = None
                /\ kia.refresh_token \in {obs[t].rt0, None}
          /\ task[t].op = "login" /\ Done(t) /\ task[t].out # "ok" /\ obs[t].otpLog # <<>> =>
                /\ kia.session_id = None
                /\ kia.refresh_token \in {obs[t].rt0, None}

\* complete-login failed after verify-OTP had returned a provisional sid
C7_Witness ==
    \E t \in Tasks :
        /\ task[t].op = "login" /\ Done(t) /\ task[t].out = "AuthError"
        /\ obs[t].otpLog = OtpOrder
        /\ obs[t].rm \in RmTokens /\ obs[t].rt0 = "rm0"
        /\ kia.session_id = None /\ kia.refresh_token = "rm0"

\* the fetch of a refresh cycle that has ended failed
FetchFailed(t) == task[t].op = "refresh" /\ Done(t) /\ obs[t].fetchExc # None

\* C8 as stated: whenever the status fetch fails, refresh returns the previous
\* snapshot unchanged if there is one, and lets the error through if not.
C8_AnyFailureFallsBack ==
    \A t \in Tasks :
        FetchFailed(t) =>
            IF obs[t].prevData # NoData
            THEN task[t].out = "ok" /\ data = obs[t].prevData
            ELSE task[t].out = obs[t].fetchExc

\* C8 amended: when the status fetch fails with a ClientError (the API's
\* errors included) and a previous snapshot exists, refresh returns that
\* snapshot unchanged; any other exception, and any failure without a previous
\* snapshot, reaches the caller and leaves the snapshot as it was.
C8_ClientErrorFallsBack ==
    \A t \in Tasks :
        FetchFailed(t) =>
            /\ data = obs[t].prevData
            /\ IF obs[t].prevData # NoData /\ IsClientError(obs[t].fetchExc)
               THEN task[t].out = "ok"
               ELSE task[t].out = obs[t].fetchExc

\* the fetch failed behind a pending action and the stale snapshot came back
\* with the last_action_status it had
C8_Witness ==
    \E t \in Tasks :
        /\ FetchFailed(t) /\ task[t].out = "ok"
        /\ IsClientError(obs[t].fetchExc)
        /\ data # NoData /\ data = obs[t].prevData
        /\ data.last_action_status # kia.last_action

\* refresh() is waiting for the pending action
Waiting(t) ==
    /\ task[t].op = "refresh" /\ task[t].st # "done"
    /\ task[t].stack # <<>> /\ task[t].stack[1].pc \in {"loop", "polled"}

\* refresh() has gone on to the status fetch, or has ended
PastWaiting(t) ==
    \/ task[t].op = "refresh" /\ task[t].stack # <<>> /\ task[t].stack[1].pc = "got"
    \/ task[t].st = "done"

\* C9: a refresh cycle that waits for a pending action eventually goes on to
\* the status fetch (or ends), whatever the completion poll answers.
C9_RefreshReachesFetch == \A t \in Tasks : Waiting(t) ~> PastWaiting(t)

CommandInFlight(t) == task[t].st = "http" /\ task[t].rq = "cmd"

\* C10: two command requests are never in flight at once on one session, and
\* a recorded pending action is only ever cleared, never replaced.
C10_NoOverwrite ==
    [][/\ Cardinality({t \in Tasks : CommandInFlight(t)}') <= 1
       /\ kia.last_action # NoAction => kia'.last_action \in {kia.last_action, NoAction}]_vars

\* C4: once a login has raised PINLockedError (and none has succeeded since),
\* a refresh cycle of the coordinator sends no further oauth/token request.
C4_NoLoginAfterPinLock ==
    [][\A t \in Tasks :
          hist.pinLocked /\ task[t].op = "refresh"
              => ~(task[t].st # "http" /\ task'[t].st = "http" /\ task'[t].rq = "token")]_vars

\* C11: pending actions are per vehicle: while the pending action belongs to
\* one vehicle, a command for the other vehicle is not refused because of it,
\* and no step of that command or of its completion poll replaces or clears it.
C11_PerVehiclePending ==
    [][\A t \in Tasks :
          (/\ task'[t] # task[t]
           /\ task[t].st \notin {"idle", "done"}
           /\ hist.owner \notin {None, task[t].vid})
              => /\ kia'.last_action = kia.last_action
                 /\ ~(At(t, "cmd") /\ task'[t].exc = "ActionAlreadyInProgressError")]_vars

\* an operation other than entry setup and the completion poll: a command
IsBluelinkCommand(t) == task[t].op \in LockCommands

\* self.last_action of the Hyundai and of the Genesis connection
BluelinkPending == {hyu.last_action, gen.last_action}

\* C12: a Hyundai or Genesis command that has returned has recorded itself as
\* the pending action (its name, with a tracking id), so that the next command
\* is refused until check_last_action_finished has polled and cleared it.
C12_BluelinkCommandsTracked ==
    \A t \in Tasks :
        IsBluelinkCommand(t) /\ Done(t) /\ task[t].out = "ok" =>
            \E la \in BluelinkPending : la.name = task[t].op /\ la.xid # None

\* the UsKia object is unauthenticated and idle
Unauthenticated(k) ==
    k.session_id = None /\ k.vehicles = NoVehicles /\ k.last_action = NoAction

Dispatched(t) == At(t, "cmd") /\ Top(task[t]).pc = "resp" /\ task[t].ret.k = "ok"

\* check_last_action_finished of task t takes a poll answer that is terminal
PollTerminal(t) ==
    At(t, "check_last_action_finished") /\ Top(task[t]).pc = "resp" /\ task[t].ret.fin

\* the step is a repair by the decorator of task t
Repairing(t) == obs'[t].nRepair # obs[t].nRepair

\* C14: the Kia pending action is set only by a command whose request was
\* dispatched successfully, a command whose dispatch failed leaves the tracker
\* idle, and the pending action is cleared only by a completion poll that
\* reports a terminal status or by an auth repair.
C14_PendingTransitions ==
    /\ [](\A t \in Tasks :
            IsCommand(t) /\ Done(t) /\ obs[t].cmdSent /\ task[t].out # "ok"
                => kia.last_action = NoAction)
    /\ [][/\ (kia'.last_action \notin {kia.last_action, NoAction}
                => (\E t \in Tasks : Dispatched(t)))
           /\ (kia.last_action # NoAction /\ kia'.last_action = NoAction
                => (\E t \in Tasks : PollTerminal(t) \/ Repairing(t)))]_vars

\* the login request of task t awaits its answer
LoginInFlight(t) == task[t].st = "http" /\ task[t].rq = "authUser"

\* an authenticated request of task t awaits its answer
AuthedInFlight(t) ==
    task[t].st = "http" /\ Top(task[t]).fn = "req" /\ Top(task[t]).a = "authed"

\* C15: on one session object at most one login request is in flight at a
\* time, and the session id is not replaced while another operation has an
\* authenticated request in flight.
C15_LoginMutex ==
    /\ [](Cardinality({t \in Tasks : LoginInFlight(t)}) <= 1)
    /\ [][\A t \in Tasks :
             AuthedInFlight(t) /\ task'[t] = task[t] => kia'.session_id = kia.session_id]_vars

\* the call of task t is inside `async with lock`
InCritical(t) ==
    \E i \in 1..Len(task[t].stack) :
        task[t].stack[i].fn = "get_or_create" /\ task[t].stack[i].pc \in InsideLock

Returned(t) == Done(t) /\ task[t].out = "ok"

\* a call that failed has stored nothing and does not hold the lock, and the
\* lock is only held by a call that is inside `async with lock`
FailedCallsLeaveNothing ==
    \A t \in Tasks :
        /\ task[t].op = "get_or_create" /\ Done(t) /\ task[t].out # "ok" => hass.by # t
        /\ hass.lock = t => InCritical(t)

\* C16 as stated: when the first login of the account succeeds, one login
\* request is sent in all and every call returns the same connection object;
\* a call that fails stores no connection and leaves the lock released.
C16_OneLoginSharedConnection ==
    /\ hass.first = "ok" =>
          /\ Cardinality({t \in Tasks : obs[t].loginSent}) = 1
          /\ \A t \in Tasks : obs[t].nLoginAfter = 0
          /\ \A t \in Tasks : Done(t) => Returned(t) /\ task[t].ret.val = hass.conn
    /\ FailedCallsLeaveNothing

\* C16 amended: the calls are inside `async with lock` one at a time; a stored
\* connection is never replaced while it holds a session; every call that
\* returns returns the stored object, and a call that did not build it has
\* sent no login request; a call that fails stores no connection and leaves
\* the lock released.
C16_SharedConnection ==
    /\ [](/\ Cardinality({t \in Tasks : InCritical(t)}) <= 1
          /\ \A t \in Tasks :
                Returned(t) /\ task[t].op = "get_or_create" =>
                    /\ hass.conn # None /\ task[t].ret.val = hass.conn
                    /\ hass.by # t => ~obs[t].loginSent
          /\ FailedCallsLeaveNothing)
    /\ [][hass.conn # None /\ kia.session_id # None => hass'.conn = hass.conn]_vars

\* a call waited for the lock while the other one logged in, and came back
\* with the connection the other one had stored
C16_Witness ==
    \E t, u \in Tasks :
        /\ t # u /\ Returned(t) /\ Returned(u)
        /\ hass.by = t /\ obs[t].loginSent /\ ~obs[u].loginSent
        /\ task[t].ret.val = hass.conn /\ task[u].ret.val = hass.conn
        /\ hass.made = 1

\* C17: an operation that starts on a session whose token the vendor has
\* rejected (no login has succeeded since) and that has the token rejected
\* again sends a login request before it ends: the rejected token is not
\* sent again and again.
C17_ReloginAfterRejection ==
    \A t \in Tasks :
        obs[t].startRejected /\ obs[t].rejectedAgain /\ Done(t) => obs[t].loginSent

\* C18: an operation of the Hyundai or Genesis client that starts while the
\* token's expiry is within the refresh buffer, or past, has logged in afresh
\* before any of its authenticated requests is sent.
C18_RefreshInsideBuffer ==
    \A t \in Tasks :
        obs[t].startInBuffer /\ task[t].st = "http" /\ task[t].rq # "token"
            => obs[t].loggedIn

\* C19: a Hyundai or Genesis login whose response carries no access token and
\* names the PIN lock in its error message fails with PINLockedError, whatever
\* else the response carries.
C19_PinLockReported ==
    \A t \in Tasks :
        obs[t].pinAnswer /\ obs[t].loginExc # None => obs[t].loginExc = "PINLockedError"

\* C20: a Kia login started by the config flow whose user never supplies the
\* OTP code ends, once the bounded wait of the callback is over, with AuthError.
C20_OtpTimeoutAuthError ==
    \A t \in Tasks :
        task[t].op = "login" /\ obs[t].otpTimeout /\ Done(t) => task[t].out = "AuthError"

LookupFailed(t) == task[t].vid # None /\ Done(t) /\ task[t].out = "ValueError"

\* C22: a command or status call whose vehicle_id is not in the cached vehicle
\* list fetches the list again (once) and looks again before it fails: no such
\* call fails without having requested the vehicle list.
C22_RefetchBeforeFailing ==
    \A t \in Tasks : LookupFailed(t) => obs[t].listSent

AuthedRequestInFlight(t) ==
    /\ task[t].st = "http"
    /\ \/ Top(task[t]).fn = "req" /\ Top(task[t]).a = "authed"
       \/ Top(task[t]).fn \in {"h_req", "g_req"} /\ task[t].rq # "token"

\* the token of the entry's connection (session_id / access_token)
SessionToken ==
    CASE hass.brand = "kia" -> kia.session_id
      [] hass.brand = "hyundai" -> hyu.access_token
      [] OTHER -> gen.access_token

\* C24: with the operations of a brand client awaited one at a time, no
\* authenticated request (vehicle list, status, data sync, command, completion
\* poll) is in flight while the session holds no token: an operation that
\* finds no token logs in first and sends its request only after the login
\* has stored one.
C24_NoRequestWithoutToken ==
    \A t \in Tasks : AuthedRequestInFlight(t) => SessionToken # None

\* a command found no session, logged in and has its command request in flight
C24_Witness ==
    \E t \in Tasks :
        /\ AuthedRequestInFlight(t) /\ task[t].rq = "cmd"
        /\ hass.brand = "kia" /\ obs[t].loginSent /\ obs[t].nRepair = 0
        /\ kia.session_id # None

\* the entries of s are in ascending plugType order
AscendingPlugType(s) == \A i \in 1..Len(s) - 1 : s[i].plugType <= s[i + 1].plugType

\* how often each entry occurs in s
Occurrences(s) == [e \in SocEntries |-> Cardinality({i \in 1..Len(s) : s[i] = e})]

\* the levels s reports for plug type p
LevelsOf(s, p) == {s[i].targetSOClevel : i \in {j \in 1..Len(s) : s[j].plugType = p}}

\* s has one entry for DC (0) and one for AC (1), whatever else it holds
OneDcOneAc(s) ==
    \A p \in {0, 1} : Cardinality({i \in 1..Len(s) : s[i].plugType = p}) = 1

\* C25: in whatever order the vendor sends its targetSOC entries, the snapshot
\* a successful refresh returns (coordinator.data) has them in ascending
\* plugType order, the same entries as the vendor sent; with one entry for
\* plug type 0 and one for plug type 1, ev_charge_limits_dc (index 0) is the
\* level of plugType 0 and ev_charge_limits_ac (index 1) the level of plugType 1.
C25_SortedByPlugType ==
    /\ AscendingPlugType(data.soc)
    /\ OneDcOneAc(data.soc) =>
          /\ ev_charge_limits_dc(data) = LevelsOf(data.soc, 0)
          /\ ev_charge_limits_ac(data) = LevelsOf(data.soc, 1)
    /\ \A t \in Tasks :
          task[t].op = "refresh" /\ Done(t) /\ task[t].out = "ok" /\ obs[t].fetchExc = None =>
              Occurrences(data.soc) = Occurrences(obs[t].socSent)

\* the vendor sent the AC entry before the DC entry
C25_Witness ==
    \E t \in Tasks :
        /\ task[t].op = "refresh" /\ Done(t) /\ task[t].out = "ok"
        /\ obs[t].socSent = <<[plugType |-> 1, targetSOClevel |-> 90],
                              [plugType |-> 0, targetSOClevel |-> 80]>>
        /\ data.soc = <<[plugType |-> 0, targetSOClevel |-> 80],
                        [plugType |-> 1, targetSOClevel |-> 90]>>
        /\ ev_charge_limits_dc(data) = {80} /\ ev_charge_limits_ac(data) = {90}

\* ---------------------------------------------------------------------------
\* seat conversions (api_adapter.py, us_kia.py, us_hyundai.py, us_genesis.py)
\* ---------------------------------------------------------------------------

\* what a decoded JSON document can hold where the seat status is expected:
\* nothing, an integer, a float (n counts tenths), the decimal text of an
\* integer, any other text, a boolean (n is 0 or 1), a list, and the floats
\* the json module yields for 1e999 and NaN
RawStatusValues ==
    {[kind |-> "none", n |-> 0], [kind |-> "word", n |-> 0], [kind |-> "list", n |-> 0],
     [kind |-> "inf", n |-> 0], [kind |-> "nan", n |-> 0]}
    \cup {[kind |-> "int", n |-> i] : i \in -2..10}
    \cup {[kind |-> "text", n |-> i] : i \in -1..9}
    \cup {[kind |-> "float", n |-> i] : i \in {-15, -5, 5, 25, 39, 80, 95}}
    \cup {[kind |-> "bool", n |-> i] : i \in {0, 1}}

\* the built-in int(): the integer, or the exception it raises
PyInt(raw) ==
    CASE raw.kind \in {"int", "bool", "text"} -> [exc |-> None, n |-> raw.n]
      [] raw.kind = "float" ->
            [exc |-> None, n |-> IF raw.n >= 0 THEN raw.n \div 10 ELSE -((-raw.n) \div 10)]
      [] raw.kind \in {"word", "nan"} -> [exc |-> "ValueError", n |-> 0]
      [] raw.kind = "inf" -> [exc |-> "OverflowError", n |-> 0]
      [] OTHER -> [exc |-> "TypeError", n |-> 0]

SeatOff == [heatVentType |-> 0, heatVentLevel |-> 1]

\* EUApiAdapter._parse_seat_status_raw: the exception that leaves it, or
\* what it returns (the empty set for None)
ParseSeatStatusRaw(raw) ==
    IF raw.kind = "none" THEN [exc |-> None, ret |-> {}]
    ELSE LET r == PyInt(raw)
             status == IF r.exc = None THEN r.n ELSE 0
         IN  IF r.exc \notin {None, "ValueError", "TypeError"}
             THEN [exc |-> r.exc, ret |-> {}]
             ELSE [exc |-> None,
                   ret |-> {CASE status = 0 \/ status = 2 -> SeatOff
                              [] status = 1 -> [heatVentType |-> 1, heatVentLevel |-> 2]
                              [] status >= 3 /\ status <= 5 ->
                                    [heatVentType |-> 2, heatVentLevel |-> status - 1]
                              [] status >= 6 /\ status <= 8 ->
                                    [heatVentType |-> 1, heatVentLevel |-> status - 4]
                              [] OTHER -> SeatOff}]

\* the adapter calls _parse_seat_status_raw on the raw value it was handed
CallParseSeatStatusRaw ==
    /\ conv.arg.for = "_parse_seat_status_raw"
    /\ conv' = [conv EXCEPT !.fn = "_parse_seat_status_raw",
                            !.res = ParseSeatStatusRaw(conv.arg.raw)]
    /\ UNCHANGED <<kia, gen, hyu, hass, data, task, running, obs, now, hist, registry, adapter>>

\* the table of the seat status scale: what the integer i stands for, the
\* generic "on" (1) left open
SeatTable(i) ==
    CASE i \in {0, 2} -> {SeatOff}
      [] i = 1 -> {[heatVentType |-> ty, heatVentLevel |-> lv] : ty \in 0..2, lv \in 1..4}
      [] i \in 3..5 -> {[heatVentType |-> 2, heatVentLevel |-> i - 1]}
      [] i \in 6..8 -> {[heatVentType |-> 1, heatVentLevel |-> i - 4]}
      [] OTHER -> {SeatOff}

\* C26: whatever raw seat status it is given, _parse_seat_status_raw raises
\* nothing, and for a value that is present it returns the entry of the table:
\* off for 0 and 2, cool low/medium/high for 3/4/5, heat low/medium/high for
\* 6/7/8, and off for every value outside 0..8 and every value that int()
\* does not convert.
C26_SeatStatusNeverRaises ==
    conv.fn = "_parse_seat_status_raw" =>
        /\ conv.res.exc = None
        /\ conv.arg.raw.kind # "none" =>
              \E s \in SeatTable(IF PyInt(conv.arg.raw).exc = None THEN PyInt(conv.arg.raw).n ELSE 0) :
                  conv.res.ret = {s}

\* a supportedLevels string is its comma-separated pieces: the decimal text
\* of an integer (spaces around it allowed), a piece that is empty or blank,
\* or any other text; <<>> is the empty string
Tok(i) == [kind |-> "int", n |-> i]
Blank == [kind |-> "blank", n |-> 0]
Word == [kind |-> "word", n |-> 0]

\* "2,6,7,8,3,4,5", what the vendor typically reports
TypicalLevels == <<Tok(2), Tok(6), Tok(7), Tok(8), Tok(3), Tok(4), Tok(5)>>

\* the token lists whose orderings are the inputs: the typical one and one
\* with a repeated token
LevelBags ==
    {TypicalLevels,
     <<Tok(2), Tok(2), Tok(3), Tok(4), Tok(5), Tok(6), Tok(7)>>}

\* every ordering of the tokens of s
OrderingsOf(s) == {[i \in 1..Len(s) |-> s[p[i]]] : p \in Permutations(1..Len(s))}

\* strings of fewer than seven integers, and strings with a blank or a
\* non-numeric piece
OtherLevels ==
    {<<>>, <<Blank>>, <<Tok(3)>>, <<Tok(3), Tok(1), Tok(2)>>, <<Tok(2), Blank, Tok(1)>>,
     <<Tok(1), Word>>, <<Tok(6), Tok(5), Tok(4), Tok(3), Tok(2), Tok(1)>>,
     TypicalLevels \o <<Blank>>}

LevelStrings ==
    UNION {OrderingsOf(b) : b \in LevelBags}
    \cup {<<Tok(9)>> \o s : s \in OrderingsOf(TypicalLevels)}
    \cup {<<Tok(1), Tok(0)>> \o TypicalLevels, TypicalLevels \o <<Tok(1)>>}
    \cup OtherLevels

RECURSIVE InsertLevel(_, _)
InsertLevel(x, s) ==
    IF s = <<>> THEN <<x>>
    ELSE IF x < Head(s) THEN <<x>> \o s
    ELSE <<Head(s)>> \o InsertLevel(x, Tail(s))

RECURSIVE SortedLevels(_)
SortedLevels(s) == IF s = <<>> THEN <<>> ELSE InsertLevel(Head(s), SortedLevels(Tail(s)))

\* the levels are left in the order of the string
SortLevelsMutUnsorted(l) == l

\* sorted([int(x.strip()) ...])
SortLevels(l) == SortedLevels(l)

\* _parse_supported_levels: the mapping from SeatSettings value to wire value
\* (a function on 0..6 or on a shorter range), or the exception of int()
ParseSupportedLevels(s) ==
    LET pieces == SelectSeq(s, LAMBDA x : x.kind # "blank")
    IN  IF s = <<>> THEN [exc |-> None, ret |-> [i \in 0..6 |-> i]]
        ELSE IF \E i \in 1..Len(pieces) : pieces[i].kind = "word"
        THEN [exc |-> "ValueError", ret |-> [i \in {} |-> 0]]
        ELSE LET levels == SortLevels([i \in 1..Len(pieces) |-> pieces[i].n])
             IN  IF Len(levels) < 7
                 THEN [exc |-> None,
                       ret |-> [i \in 0..(IF levels = <<>> THEN 0 ELSE Len(levels) - 1) |->
                                   IF i = 0 THEN (IF levels # <<>> THEN levels[1] ELSE 0)
                                   ELSE levels[i + 1]]]
                 ELSE [exc |-> None, ret |-> [i \in 0..6 |-> levels[i + 1]]]

\* _parse_supported_levels is called on the string at hand
CallParseSupportedLevels ==
    /\ conv.arg.for = "_parse_supported_levels"
    /\ conv' = [conv EXCEPT !.fn = "_parse_supported_levels",
                            !.res = ParseSupportedLevels(conv.arg.levels)]
    /\ UNCHANGED <<kia, gen, hyu, hass, data, task, running, obs, now, hist, registry, adapter>>

\* the string s with its pieces i and j exchanged
Exchanged(s, i, j) ==
    [k \in 1..Len(s) |-> IF k = i THEN s[j] ELSE IF k = j THEN s[i] ELSE s[k]]

\* v is the k-th smallest of the integers of s, repeated tokens counted
KthSmallest(v, k, s) ==
    /\ Cardinality({j \in 1..Len(s) : s[j].n < v}) < k
    /\ k <= Cardinality({j \in 1..Len(s) : s[j].n <= v})

SevenOrMoreIntegers(s) == Len(s) >= 7 /\ \A i \in 1..Len(s) : s[i].kind = "int"

\* C27: for a supportedLevels string of seven or more integer tokens,
\* _parse_supported_levels returns a mapping on the seven seat settings in
\* which off (0) is the smallest token, cool low/medium/high (1, 2, 3) are the
\* second to fourth smallest and heat low/medium/high (4, 5, 6) the fifth to
\* seventh smallest; and it returns the same mapping for the string with any
\* two of its tokens exchanged, hence for every ordering of the same tokens.
C27_LevelsOrderIndependent ==
    conv.fn = "_parse_supported_levels" /\ SevenOrMoreIntegers(conv.arg.levels) =>
        /\ conv.res.exc = None
        /\ DOMAIN conv.res.ret = 0..6
        /\ \A i \in 0..6 : KthSmallest(conv.res.ret[i], i + 1, conv.arg.levels)
        /\ \A i, j \in 1..Len(conv.arg.levels) :
              ParseSupportedLevels(Exchanged(conv.arg.levels, i, j)) = conv.res

\* "2,6,7,8,3,4,5" gives off 2, cool 3/4/5, heat 6/7/8
C27_Witness ==
    /\ conv.fn = "_parse_supported_levels"
    /\ conv.arg.levels = TypicalLevels
    /\ conv.res = [exc |-> None, ret |-> [i \in 0..6 |-> i + 2]]

\* the seat states of the select entities (const.py, SEAT_STATUS values)
SeatNames ==
    {"Off", "Low Heat", "Medium Heat", "High Heat", "Low Cool", "Medium Cool", "High Cool"}

\* kia_hyundai_api.const.SeatSettings, the enumeration the clients import
ApiSeatSettings(name) ==
    CASE name = "High Heat" -> 6
      [] name = "Medium Heat" -> 5
      [] name = "Low Heat" -> 4
      [] name = "High Cool" -> 3
      [] name = "Medium Cool" -> 2
      [] name = "Low Cool" -> 1
      [] OTHER -> 0

\* const.STR_TO_SEAT_SETTING over const.SeatSettings, the enumeration the
\* select entities and the service hand to start_climate
STR_TO_SEAT_SETTING(name) ==
    CASE name = "High Heat" -> 3
      [] name = "Medium Heat" -> 2
      [] name = "Low Heat" -> 1
      [] name = "High Cool" -> -3
      [] name = "Medium Cool" -> -2
      [] name = "Low Cool" -> -1
      [] OTHER -> 0

\* driver_seat=None
NoLevel == [enum |-> None, value |-> 0]

\* the driver_seat argument for a requested seat state
LevelOf(a) ==
    IF a.seat = None THEN NoLevel
    ELSE [enum |-> a.enum,
          value |-> IF a.enum = "api" THEN ApiSeatSettings(a.seat)
                    ELSE STR_TO_SEAT_SETTING(a.seat)]

\* us_kia._seat_settings: the match compares with the members of the clients'
\* enumeration, which no member of the other enumeration equals
seat_settings(level) ==
    LET v == IF level.enum = "api" THEN level.value ELSE 0
    IN  CASE v = 6 -> [heatVentType |-> 1, heatVentLevel |-> 4, heatVentStep |-> 1]
          [] v = 5 -> [heatVentType |-> 1, heatVentLevel |-> 3, heatVentStep |-> 2]
          [] v = 4 -> [heatVentType |-> 1, heatVentLevel |-> 2, heatVentStep |-> 3]
          [] v = 3 -> [heatVentType |-> 2, heatVentLevel |-> 4, heatVentStep |-> 1]
          [] v = 2 -> [heatVentType |-> 2, heatVentLevel |-> 3, heatVentStep |-> 2]
          [] v = 1 -> [heatVentType |-> 2, heatVentLevel |-> 2, heatVentStep |-> 3]
          [] OTHER -> [heatVentType |-> 0, heatVentLevel |-> 1, heatVentStep |-> 0]

\* us_hyundai._seat_settings_hyundai
seat_settings_hyundai(level) ==
    IF level = NoLevel THEN 0
    ELSE CASE level.value = 6 -> 3
           [] level.value = 5 -> 2
           [] level.value = 4 -> 1
           [] level.value = 3 -> 8
           [] level.value = 2 -> 7
           [] level.value = 1 -> 6
           [] OTHER -> 0

\* dict.get(key, default) on a mapping
Get(mapping, key, default) == IF key \in DOMAIN mapping THEN mapping[key] ELSE default

\* us_genesis._seat_settings_genesis, cache being _seat_level_mappings for the
\* vehicle: empty, or the one mapping stored
seat_settings_genesis(level, cache) ==
    IF level = NoLevel
    THEN IF cache = {} THEN 2 ELSE Get(CHOOSE m \in cache : TRUE, 0, 2)
    ELSE LET mapping == IF cache = {} THEN [i \in 0..6 |-> i + 2]
                        ELSE CHOOSE m \in cache : TRUE
         IN  Get(mapping, level.value, Get(mapping, 0, 2))

\* the values of a capability key in the vendor's details: absent, or a text
Capable == {None, "YES", "NO"}

\* "1" if ... else "0"
Flag(b) == IF b THEN "1" ELSE "0"

\* every seat is taken to heat and ventilate
HeatVentTypeMutBoth(seat) == 3

\* the heatVentType of one seat configuration
HeatVentType(seat) ==
    LET heat_capable == seat.heatingCapable = "YES"
        vent_capable == seat.ventCapable = "YES"
    IN  IF heat_capable /\ vent_capable THEN 3
        ELSE IF heat_capable THEN 1
        ELSE IF vent_capable THEN 2
        ELSE 0

\* heatVentStep: Genesis counts the pieces that are not blank, Hyundai the
\* pieces of a string that is not empty
HeatVentStep(brand, levels) ==
    IF brand = "genesis" THEN Len(SelectSeq(levels, LAMBDA x : x.kind # "blank"))
    ELSE IF levels = <<>> THEN 0 ELSE Len(levels)

SeatLocations == {"1", "2", "3", "4"}

\* seat_config_map.get(loc, {"heatVentType": 0, "heatVentStep": 0}): a later
\* configuration of the same seatLocationID replaces an earlier one
SeatConfigOf(brand, seats, loc) ==
    LET at == {i \in 1..Len(seats) : seats[i].seatLocationID = loc}
    IN  IF at = {} THEN [heatVentType |-> 0, heatVentStep |-> 0]
        ELSE LET seat == seats[CHOOSE i \in at : \A j \in at : j <= i]
             IN  [heatVentType |-> HeatVentType(seat),
                  heatVentStep |-> HeatVentStep(brand, seat.supportedLevels)]

\* the capability part of the normalised status (vehicleFeature.remoteFeature
\* and heatVentSeat) that get_cached_vehicle_status builds from the details
Normalised(brand, d) ==
    [heatedSeat |-> Flag(\E i \in 1..Len(d.seats) : d.seats[i].heatingCapable = "YES"),
     ventSeat |-> Flag(\E i \in 1..Len(d.seats) : d.seats[i].ventCapable = "YES"),
     heatedSteeringWheel |-> Flag(d.steeringWheelHeatCapable = "YES"),
     heatedSideMirror |-> Flag(d.sideMirrorHeatCapable = "YES"),
     heatedRearWindow |-> Flag(d.rearWindowHeatCapable = "YES"),
     heatVentSeat |-> [loc \in SeatLocations |-> SeatConfigOf(brand, d.seats, loc)]]

\* the supportedLevels of the first seat configuration that has any, <<>> if
\* there is none
FirstLevels(seats) ==
    LET with == {i \in 1..Len(seats) : seats[i].supportedLevels # <<>>}
    IN  IF with = {} THEN <<>>
        ELSE seats[CHOOSE i \in with : \A j \in with : i <= j].supportedLevels

\* UsHyundai.get_cached_vehicle_status, from the vendor's details to the
\* normalised capabilities; no seat level mapping is built
HyundaiStatus ==
    /\ conv.arg.for = "vehicle" /\ conv.arg.brand = "hyundai"
    /\ conv' = [conv EXCEPT !.fn = "get_cached_vehicle_status",
                            !.res = [exc |-> None,
                                     status |-> Normalised("hyundai", conv.arg.details)],
                            !.reported = TRUE]
    /\ UNCHANGED <<kia, gen, hyu, hass, data, task, running, obs, now, hist, registry, adapter>>

\* UsGenesis.get_cached_vehicle_status, from the vendor's details to the
\* normalised capabilities: the mapping parsed from the first supportedLevels
\* is stored in _seat_level_mappings; a piece int() rejects ends the call
GenesisStatus ==
    /\ conv.arg.for = "vehicle" /\ conv.arg.brand = "genesis"
    /\ LET levels_str == FirstLevels(conv.arg.details.seats)
           parsed == ParseSupportedLevels(levels_str)
       IN  conv' = IF levels_str # <<>> /\ parsed.exc # None
                   THEN [conv EXCEPT !.fn = "get_cached_vehicle_status",
                                     !.res = [exc |-> parsed.exc]]
                   ELSE [conv EXCEPT !.fn = "get_cached_vehicle_status",
                                     !.res = [exc |-> None,
                                              status |-> Normalised("genesis", conv.arg.details)],
                                     !.mappings = IF levels_str # <<>> THEN {parsed.ret} ELSE @,
                                     !.reported = TRUE]
    /\ UNCHANGED <<kia, gen, hyu, hass, data, task, running, obs, now, hist, registry, adapter>>

\* UsKia.start_climate, the seat part of the body: heatVentSeat is sent when a
\* seat other than SeatSettings.NONE is asked for
KiaStartClimate ==
    /\ conv.arg.for = "vehicle" /\ conv.arg.brand = "kia"
    /\ LET level == LevelOf(conv.arg)
           has_seat_settings == level # NoLevel /\ level # [enum |-> "api", value |-> 0]
       IN  conv' = [conv EXCEPT !.fn = "start_climate",
                                !.res = [sent |-> IF has_seat_settings
                                                  THEN {seat_settings(level)} ELSE {}]]
    /\ UNCHANGED <<kia, gen, hyu, hass, data, task, running, obs, now, hist, registry, adapter>>

\* UsHyundai.start_climate, the seat part of the body: an electric vehicle
\* below generation 3 gets no seatHeaterVentInfo
HyundaiStartClimate ==
    /\ conv.arg.for = "vehicle" /\ conv.arg.brand = "hyundai"
    /\ conv' = [conv EXCEPT !.fn = "start_climate",
                            !.res = [sent |-> IF conv.arg.ev2 THEN {}
                                              ELSE {seat_settings_hyundai(LevelOf(conv.arg))}]]
    /\ UNCHANGED <<kia, gen, hyu, hass, data, task, running, obs, now, hist, registry, adapter>>

\* UsGenesis.start_climate, the seat part of the body
GenesisStartClimate ==
    /\ conv.arg.for = "vehicle" /\ conv.arg.brand = "genesis"
    /\ conv' = [conv EXCEPT !.fn = "start_climate",
                            !.res = [sent |-> IF conv.arg.ev2 THEN {}
                                              ELSE {seat_settings_genesis(LevelOf(conv.arg),
                                                                          conv.mappings)}]]
    /\ UNCHANGED <<kia, gen, hyu, hass, data, task, running, obs, now, hist, registry, adapter>>

\* the k-th smallest token of the string s
Smallest(k, s) == CHOOSE v \in {s[j].n : j \in 1..Len(s)} : KthSmallest(v, k, s)

\* the wire value the reported string gives a seat state: the lowest token for
\* off, the next three for cool low/medium/high, the next three for heat
FromReportedLevels(name, s) ==
    Smallest(CASE name = "Off" -> 1
               [] name = "Low Cool" -> 2
               [] name = "Medium Cool" -> 3
               [] name = "High Cool" -> 4
               [] name = "Low Heat" -> 5
               [] name = "Medium Heat" -> 6
               [] OTHER -> 7, s)

\* start_climate has sent a seat value for a seat state given as a member of
\* the clients' enumeration, after the vendor's details were fetched and held
\* a supportedLevels string of seven or more integers
SentAfterReport ==
    /\ conv.fn = "start_climate" /\ conv.res.sent # {}
    /\ conv.reported
    /\ conv.arg.seat # None /\ conv.arg.enum = "api"
    /\ SevenOrMoreIntegers(FirstLevels(conv.arg.details.seats))

\* C28: for the Hyundai and the Genesis client, the seat value start_climate
\* sends for a seat state is the one the vehicle's reported supportedLevels
\* string gives it (sorted ascending: lowest = off, next three = cool
\* low/medium/high, next three = heat low/medium/high).
C28_WireFromSupportedLevels ==
    conv.arg.for = "vehicle" /\ conv.arg.brand \in {"hyundai", "genesis"} /\ SentAfterReport =>
        conv.res.sent = {FromReportedLevels(conv.arg.seat, FirstLevels(conv.arg.details.seats))}

\* a raw seat status has been handed to the adapter
ArgRaw(raw) == [NoConv EXCEPT !.arg = [for |-> "_parse_seat_status_raw", raw |-> raw]]

\* a supportedLevels string has arrived
ArgLevels(s) == [NoConv EXCEPT !.arg = [for |-> "_parse_supported_levels", levels |-> s]]

\* const.SEAT_STATUS with the default of SEAT_STATUS.get(..., "Off")
SEAT_STATUS(type, level) ==
    CASE type = 1 /\ level = 4 -> "High Heat"
      [] type = 1 /\ level = 3 -> "Medium Heat"
      [] type = 1 /\ level \in {1, 2} -> "Low Heat"
      [] type = 2 /\ level = 4 -> "High Cool"
      [] type = 2 /\ level = 3 -> "Medium Cool"
      [] type = 2 /\ level \in {1, 2} -> "Low Cool"
      [] OTHER -> "Off"

\* the vehicle reports the seat value it was sent, and the brand's reader turns
\* it into a seat state: for Kia the (heatVentType, heatVentLevel) of the
\* document, for Hyundai and Genesis the integer through _parse_seat_status_raw
ReadBack ==
    /\ conv.fn = "start_climate" /\ conv.res.sent # {}
    /\ LET wire == CHOOSE w \in conv.res.sent : TRUE
           seat == IF conv.arg.brand = "kia"
                   THEN [heatVentType |-> wire.heatVentType,
                         heatVentLevel |-> wire.heatVentLevel]
                   ELSE CHOOSE r \in ParseSeatStatusRaw([kind |-> "int", n |-> wire]).ret : TRUE
       IN  conv' = [conv EXCEPT !.fn = "read_back",
                                !.res = [sent |-> conv.res.sent,
                                         state |-> SEAT_STATUS(seat.heatVentType,
                                                               seat.heatVentLevel)]]
    /\ UNCHANGED <<kia, gen, hyu, hass, data, task, running, obs, now, hist, registry, adapter>>

\* a seat state, given as a member of the clients' enumeration, was encoded and
\* read back; for Genesis with the mapping of the typical string or with the
\* built-in mapping
RoundTripDone ==
    /\ conv.fn = "read_back"
    /\ conv.arg.enum = "api"
    /\ conv.arg.brand = "genesis" =>
          \/ conv.mappings = {}
          \/ FirstLevels(conv.arg.details.seats) = TypicalLevels

\* C29: for each brand, a seat state (type, level) encoded to the brand's wire
\* value by its encoder (_seat_settings, _seat_settings_hyundai,
\* _seat_settings_genesis) and read back by the brand's reader is the same
\* seat state again.
C29_SeatRoundTrip ==
    RoundTripDone => conv.res.state = conv.arg.seat

\* the keys of SEAT_SELECTIONS with the seat whose configuration options_fn
\* reads: front_seat_options is driverSeat, rear_seat_options is rearLeftSeat
SeatSelections ==
    {[key |-> "desired_driver_seat_comfort", seat |-> "1", rear |-> FALSE],
     [key |-> "desired_passenger_seat_comfort", seat |-> "1", rear |-> FALSE],
     [key |-> "desired_left_rear_seat_comfort", seat |-> "3", rear |-> TRUE],
     [key |-> "desired_right_rear_seat_comfort", seat |-> "3", rear |-> TRUE]}

\* HEAT_OPTIONS.get(steps, HEAT_OPTIONS[3])
HEAT_OPTIONS(steps) ==
    IF steps = 2 THEN {"High Heat", "Low Heat"} ELSE {"High Heat", "Medium Heat", "Low Heat"}

\* COOL_OPTIONS.get(steps, COOL_OPTIONS[3])
COOL_OPTIONS(steps) ==
    IF steps = 2 THEN {"High Cool", "Low Cool"} ELSE {"High Cool", "Medium Cool", "Low Cool"}

\* SeatSelect.options, as the set of the options offered
Options(installed_options) ==
    LET heat_type == installed_options.heatVentType
        steps == installed_options.heatVentStep
    IN  IF heat_type = 3 \/ heat_type = 0
        THEN {"Off"} \cup HEAT_OPTIONS(steps) \cup COOL_OPTIONS(steps)
        ELSE IF heat_type = 2 THEN {"Off"} \cup COOL_OPTIONS(steps)
        ELSE IF heat_type = 1 THEN {"Off"} \cup HEAT_OPTIONS(steps)
        ELSE {"Off"} \cup HEAT_OPTIONS(3) \cup COOL_OPTIONS(3)

\* VehicleCoordinator.has_climate_seats on the normalised status
has_climate_seats(status) == status.heatedSeat = "1" \/ status.ventSeat = "1"

\* select.async_setup_entry and SeatSelect.options on the status the
\* coordinator holds: whether the select of one key is created, and what it
\* offers
SeatSelectOptions ==
    /\ conv.fn = "get_cached_vehicle_status" /\ conv.res.exc = None
    /\ \E sel \in SeatSelections :
           LET status == conv.res.status
               installed_options == status.heatVentSeat[sel.seat]
               exists_fn == ~sel.rear \/ installed_options.heatVentType # 0
           IN  conv' = [conv EXCEPT !.fn = "options",
                                    !.res = [status |-> status, sel |-> sel,
                                             created |-> has_climate_seats(status) /\ exists_fn,
                                             options |-> Options(installed_options)]]
    /\ UNCHANGED <<kia, gen, hyu, hass, data, task, running, obs, now, hist, registry, adapter>>

\* the vendor's details hold nothing for the vehicle
NoDetails ==
    [seats |-> <<>>, steeringWheelHeatCapable |-> None, sideMirrorHeatCapable |-> None,
     rearWindowHeatCapable |-> None]

\* one entry of seatConfigs
SeatConfig(loc, heat, vent, levels) ==
    [seatLocationID |-> loc, heatingCapable |-> heat, ventCapable |-> vent,
     supportedLevels |-> levels]

\* the supportedLevels strings of the seats of one vehicle
ReportedLevels ==
    {<<>>, <<Blank>>, TypicalLevels, <<Tok(3), Tok(1), Tok(2)>>, <<Tok(1), Word>>,
     <<Tok(0), Tok(1), Tok(2), Tok(3), Tok(6), Tok(7), Tok(8)>>,
     <<Tok(8), Tok(7), Tok(6), Tok(5), Tok(4), Tok(3), Tok(2), Tok(1)>>}

\* details of a vehicle with up to two seats that heat and cool
ClimateDetails ==
    {NoDetails}
    \cup {[NoDetails EXCEPT !.seats = <<SeatConfig("1", "YES", "YES", s)>>] : s \in ReportedLevels}
    \cup {[NoDetails EXCEPT !.seats = <<SeatConfig("1", "YES", "YES", s1),
                                       SeatConfig("2", "YES", "YES", s2)>>] :
             s1, s2 \in ReportedLevels}

\* the seat configurations the vendor may report for a front and a rear seat
ReportedSeats ==
    {SeatConfig(loc, heat, vent, s) :
        loc \in {"1", "3"}, heat \in Capable, vent \in Capable, s \in {<<>>, TypicalLevels}}

\* details with up to two seat configurations (two of the same seat included)
\* and the three heating capabilities absent, "YES" or "NO"
CapabilityDetails ==
    {[seats |-> ss, steeringWheelHeatCapable |-> sw, sideMirrorHeatCapable |-> sm,
      rearWindowHeatCapable |-> rw] :
        ss \in {<<>>} \cup {<<c>> : c \in ReportedSeats}, sw \in Capable, sm \in Capable,
        rw \in Capable}
    \cup {[seats |-> <<c1, c2>>, steeringWheelHeatCapable |-> x, sideMirrorHeatCapable |-> x,
           rearWindowHeatCapable |-> x] :
             c1 \in ReportedSeats, c2 \in ReportedSeats, x \in {None, "YES"}}

\* a vehicle of the brand with its details, and the seat state asked for (None:
\* no seat argument), in one of the two enumerations
ArgVehicle(b, d, n, e, ev2) ==
    [NoConv EXCEPT !.arg = [for |-> "vehicle", brand |-> b, details |-> d, seat |-> n,
                            enum |-> IF n = None THEN None ELSE e, ev2 |-> ev2]]

InitSeats ==
    /\ kia = NewKia(None, "interactive")
    /\ hass = NoConnection
    /\ InitCore
    /\ \/ \E raw \in RawStatusValues : conv = ArgRaw(raw)
       \/ \E s \in LevelStrings : conv = ArgLevels(s)
       \/ \E b \in {"hyundai", "genesis"}, d \in ClimateDetails, n \in SeatNames \cup {None},
             e \in {"api", "integration"}, ev2 \in BOOLEAN :
             conv = ArgVehicle(b, d, n, e, ev2)
       \/ \E n \in SeatNames \cup {None}, e \in {"api", "integration"} :
             conv = ArgVehicle("kia", NoDetails, n, e, FALSE)
       \/ \E b \in {"hyundai", "genesis"}, d \in CapabilityDetails :
             conv = ArgVehicle(b, d, None, None, FALSE)

NextSeats ==
    \/ CallParseSeatStatusRaw
    \/ CallParseSupportedLevels
    \/ HyundaiStatus
    \/ GenesisStatus
    \/ KiaStartClimate
    \/ HyundaiStartClimate
    \/ GenesisStartClimate
    \/ ReadBack
    \/ SeatSelectOptions

SpecSeats == InitSeats /\ [][NextSeats]_vars

\* get_cached_vehicle_status has returned the normalised status
StatusReturned == conv.fn = "get_cached_vehicle_status" /\ conv.res.exc = None

\* the seat configuration i is the one that counts for its seat: no later
\* configuration names the same seat
CountsFor(seats, i) ==
    \A j \in 1..Len(seats) : j > i => seats[j].seatLocationID # seats[i].seatLocationID

\* C30: in the normalised status of the Hyundai and of the Genesis client,
\* heatedSeat (ventSeat) is "1" exactly when some reported seat configuration
\* has heatingCapable (ventCapable) "YES", otherwise "0"; a seat's
\* heatVentType is 3, 1, 2 or 0 as its configuration reports both, heating
\* only, ventilation only or neither; a seat without a reported configuration
\* has type 0 and step 0; heatedSteeringWheel, heatedSideMirror and
\* heatedRearWindow are "1" exactly when the vendor reports "YES" for the
\* capability, and "0" otherwise, an absent key included.
C30_CapabilitiesFromVendor ==
    StatusReturned =>
        LET d == conv.arg.details
            st == conv.res.status
        IN  /\ st.heatedSeat =
                  (IF \E i \in 1..Len(d.seats) : d.seats[i].heatingCapable = "YES"
                   THEN "1" ELSE "0")
            /\ st.ventSeat =
                  (IF \E i \in 1..Len(d.seats) : d.seats[i].ventCapable = "YES"
                   THEN "1" ELSE "0")
            /\ \A i \in 1..Len(d.seats) :
                  CountsFor(d.seats, i) =>
                      st.heatVentSeat[d.seats[i].seatLocationID].heatVentType =
                          (IF d.seats[i].heatingCapable = "YES" THEN 1 ELSE 0)
                          + (IF d.seats[i].ventCapable = "YES" THEN 2 ELSE 0)
            /\ \A loc \in SeatLocations :
                  (\A i \in 1..Len(d.seats) : d.seats[i].seatLocationID # loc) =>
                      st.heatVentSeat[loc] = [heatVentType |-> 0, heatVentStep |-> 0]
            /\ (st.heatedSteeringWheel = "1") = (d.steeringWheelHeatCapable = "YES")
            /\ (st.heatedSideMirror = "1") = (d.sideMirrorHeatCapable = "YES")
            /\ (st.heatedRearWindow = "1") = (d.rearWindowHeatCapable = "YES")
            /\ {st.heatedSteeringWheel, st.heatedSideMirror, st.heatedRearWindow}
                  \subseteq {"0", "1"}

\* a Hyundai whose driver seat heats only and whose rear seat ventilates only,
\* with a heated steering wheel and nothing reported for the passenger seat
C30_Witness ==
    /\ StatusReturned
    /\ conv.arg.brand = "hyundai"
    /\ conv.arg.details.seats = <<SeatConfig("1", "YES", None, TypicalLevels),
                                  SeatConfig("3", "NO", "YES", <<>>)>>
    /\ conv.arg.details.steeringWheelHeatCapable = "YES"
    /\ conv.res.status.heatedSeat = "1" /\ conv.res.status.ventSeat = "1"
    /\ conv.res.status.heatVentSeat["1"].heatVentType = 1
    /\ conv.res.status.heatVentSeat["3"].heatVentType = 2
    /\ conv.res.status.heatVentSeat["2"] = [heatVentType |-> 0, heatVentStep |-> 0]
    /\ conv.res.status.heatedSteeringWheel = "1"

\* a seat select was created and offers its options
SelectOffered == conv.fn = "options" /\ conv.res.created

\* the heatVentType reported for the seat whose configuration the select reads
ReportedType == conv.res.status.heatVentSeat[conv.res.sel.seat].heatVentType

\* C31: a seat select that exists offers heat options only when the
\* heatVentType reported for its seat includes heat (1 or 3) and cool options
\* only when it includes cool (2 or 3); with type 0, or with no configuration
\* reported for the seat, it offers neither.
C31_OptionsFromCapability ==
    SelectOffered =>
        /\ conv.res.options \cap HEAT_OPTIONS(3) # {} => ReportedType \in {1, 3}
        /\ conv.res.options \cap COOL_OPTIONS(3) # {} => ReportedType \in {2, 3}

\* ---------------------------------------------------------------------------
\* the config entries and hass.data[DOMAIN] (__init__.py)
\* ---------------------------------------------------------------------------

\* the keys of hass.data[DOMAIN]: "_api_connection_<brand>_<username>" and
\* "_api_lock_<brand>_<username>" per account, and "_coordinators"; underscore
\* tells whether the key starts with "_"
KeysOf(r) ==
    {[key |-> "_api_connection", of |-> e, underscore |-> TRUE] : e \in {x \in Entries : r.conn[x]}}
    \cup {[key |-> "_api_lock", of |-> e, underscore |-> TRUE] : e \in {x \in Entries : r.lock[x]}}
    \cup (IF r.coordinators # {}
          THEN {[key |-> "_coordinators", of |-> None, underscore |-> TRUE]} ELSE {})

\* the domain data is never dropped
DomainLeftMutKept(r) == FALSE

\* `not any(k for k in hass.data[DOMAIN] if not k.startswith("_"))`, evaluated
\* after the pops of async_unload_entry
DomainLeft(r) == ~\E k \in KeysOf(r) : ~k.underscore

\* hass.data.pop(DOMAIN, None)
PopDomain(r) ==
    [r EXCEPT !.domain = FALSE, !.conn = [e \in Entries |-> FALSE],
              !.lock = [e \in Entries |-> FALSE], !.coordinators = {}]

\* async_setup_entry up to the first await: hass.data.setdefault(DOMAIN, {}),
\* the account's lock is created and taken, and a stored connection is
\* returned as it is; otherwise the login follows
SetupStart(e) ==
    /\ registry.pc[e] = "not_loaded"
    /\ registry' = [registry EXCEPT !.domain = TRUE,
                                    !.lock[e] = TRUE,
                                    !.pc[e] = IF registry.domain /\ registry.conn[e]
                                              THEN "refreshing" ELSE "login",
                                    !.fresh[e] = FALSE,
                                    !.after_unload[e] = registry.unloaded[e],
                                    !.unloaded[e] = FALSE]
    /\ UNCHANGED <<kia, gen, hyu, hass, data, task, running, obs, now, hist, conv, adapter>>

\* login() and get_vehicles() have answered: the connection is stored under
\* the account's key, or the setup ends with the error (a KeyError when the
\* domain data was dropped meanwhile)
SetupLogin(e) ==
    /\ registry.pc[e] = "login"
    /\ \E ok \in BOOLEAN :
           registry' = IF ok /\ registry.domain
                       THEN [registry EXCEPT !.conn[e] = TRUE, !.fresh[e] = TRUE,
                                             !.pc[e] = "refreshing"]
                       ELSE [registry EXCEPT !.pc[e] = "not_loaded"]
    /\ UNCHANGED <<kia, gen, hyu, hass, data, task, running, obs, now, hist, conv, adapter>>

\* the first refresh of the entry's coordinators has ended: with one
\* coordinator or more, hass.data[DOMAIN][COORDINATORS_KEY] = coordinators
SetupRefresh(e) ==
    /\ registry.pc[e] = "refreshing"
    /\ \E ok \in BOOLEAN :
           registry' = IF ok /\ registry.domain
                       THEN [registry EXCEPT !.coordinators = {e}, !.pc[e] = "forwarding"]
                       ELSE [registry EXCEPT !.pc[e] = "not_loaded"]
    /\ UNCHANGED <<kia, gen, hyu, hass, data, task, running, obs, now, hist, conv, adapter>>

\* the platforms are set up, async_setup_entry returns True
SetupForward(e) ==
    /\ registry.pc[e] = "forwarding"
    /\ registry' = [registry EXCEPT !.pc[e] = "loaded"]
    /\ UNCHANGED <<kia, gen, hyu, hass, data, task, running, obs, now, hist, conv, adapter>>

\* async_unload_entry awaits async_unload_platforms
UnloadStart(e) ==
    /\ registry.pc[e] = "loaded"
    /\ registry' = [registry EXCEPT !.pc[e] = "unloading"]
    /\ UNCHANGED <<kia, gen, hyu, hass, data, task, running, obs, now, hist, conv, adapter>>

\* the rest of async_unload_entry: with unload_ok the coordinators key and the
\* keys "_api_connection" and "_api_lock" are popped (no key has these two
\* names), then the domain data if no other key is left; hass.data[DOMAIN]
\* raises KeyError when the domain data is gone already
UnloadFinish(e) ==
    /\ registry.pc[e] = "unloading"
    /\ \E unload_ok \in BOOLEAN :
           registry' =
               IF ~unload_ok THEN [registry EXCEPT !.pc[e] = "loaded"]
               ELSE IF ~registry.domain THEN [registry EXCEPT !.pc[e] = "unload_failed"]
               ELSE LET popped == [registry EXCEPT !.coordinators = {}]
                        left == IF DomainLeft(popped) THEN PopDomain(popped) ELSE popped
                    IN  [left EXCEPT !.pc[e] = "not_loaded", !.unloaded[e] = TRUE]
    /\ UNCHANGED <<kia, gen, hyu, hass, data, task, running, obs, now, hist, conv, adapter>>

InitEntries ==
    /\ kia = NewKia(None, "entry_setup")
    /\ hass = NoConnection
    /\ conv = NoConv
    /\ InitCore

NextEntries ==
    \E e \in Entries :
        \/ SetupStart(e) \/ SetupLogin(e) \/ SetupRefresh(e) \/ SetupForward(e)
        \/ UnloadStart(e) \/ UnloadFinish(e)

SpecEntries == InitEntries /\ [][NextEntries]_vars

\* the setup of e that follows its unload has got its connection
SetUpAgain(e) ==
    registry.after_unload[e] /\ registry.pc[e] \in {"refreshing", "forwarding", "loaded"}

\* C32: after a successful async_unload_entry of an entry, hass.data[DOMAIN]
\* holds neither the connection nor the lock of the entry's account, and the
\* next setup of the entry gets its connection from a fresh login and
\* vehicle-list fetch, not from the registry.
C32_UnloadDropsConnection ==
    \A e \in Entries :
        /\ registry.unloaded[e] => ~registry.conn[e] /\ ~registry.lock[e]
        /\ SetUpAgain(e) => registry.fresh[e]

\* an entry was unloaded and set up again with a fresh login
C32_Witness ==
    \E e \in Entries :
        /\ registry.after_unload[e] /\ registry.pc[e] = "loaded"
        /\ registry.fresh[e] /\ registry.conn[e] /\ registry.lock[e]

\* C33: while entry A is loaded, its coordinators are registered (its vehicles
\* are found by get_coordinator) and the connection of its account is in
\* hass.data[DOMAIN], whatever happens to entry B.
C33_OtherEntryUntouched ==
    registry.pc["A"] = "loaded" => "A" \in registry.coordinators /\ registry.conn["A"]

\* ---------------------------------------------- the refresh cycle's fallback
\* the status fetch of either coordinator that calls refresh(): a Kia entry
\* (UsKia) or a Genesis entry (UsGenesis)
InitCoordinators ==
    /\ kia \in {NewKia(rt, "entry_setup") : rt \in {None, "rm0"}}
    /\ hass \in {[NoConnection EXCEPT !.brand = b] : b \in {"kia", "genesis"}}
    /\ InitObjects

NextCoordinators ==
    \/ Entry("kia") /\ NextRefresh
    \/ Entry("genesis") /\ NextGenesis

SpecCoordinators == InitCoordinators /\ [][NextCoordinators]_vars

\* the base class of each exception class (errors.py; aiohttp's ClientError,
\* Python's ValueError and Home Assistant's ConfigEntryAuthFailed derive from
\* Exception by other ways than ClientError)
ErrorBases ==
    [BaseError |-> "ClientError", RateError |-> "BaseError", AuthError |-> "BaseError",
     ActionAlreadyInProgressError |-> "BaseError", PINLockedError |-> "AuthError",
     TokenExpiredError |-> "AuthError", ClientError |-> "Exception",
     ValueError |-> "Exception", ConfigEntryAuthFailed |-> "Exception"]

\* issubclass(e, c)
RECURSIVE DerivesFrom(_, _)
DerivesFrom(e, c) ==
    \/ e = c
    \/ e \in DOMAIN ErrorBases /\ DerivesFrom(ErrorBases[e], c)

\* the refresh cycle of t has ended, its fetch failed and a snapshot existed
FetchFailedWithSnapshot(t) == FetchFailed(t) /\ obs[t].prevData # NoData

\* C34: with a previous snapshot, refresh() answers a failed status fetch with
\* that snapshot exactly when the exception derives from ClientError, as
\* AuthError, PINLockedError and ActionAlreadyInProgressError do; any other
\* exception of the fetch (ValueError) reaches the caller.
C34_FallbackExactlyClientError ==
    /\ \A e \in {"AuthError", "PINLockedError", "ActionAlreadyInProgressError"} :
          DerivesFrom(e, "ClientError")
    /\ \A t \in Tasks :
          FetchFailedWithSnapshot(t) =>
              IF DerivesFrom(obs[t].fetchExc, "ClientError")
              THEN task[t].out = "ok" /\ data = obs[t].prevData
              ELSE task[t].out = obs[t].fetchExc

\* the vehicle is gone from the re-fetched list: ValueError reaches the caller
\* although a snapshot exists
C34_Witness ==
    \E t \in Tasks :
        /\ FetchFailedWithSnapshot(t)
        /\ obs[t].fetchExc = "ValueError" /\ task[t].out = "ValueError"

\* ------------------------------------- the seat options the entities hand over
\* the seat value that stands for a seat option on the brand's wire: for Kia
\* the heatVentType (1 heat, 2 cool) and heatVentLevel (2, 3, 4) of the
\* option, for Hyundai the heat levels 1..3 and the cool levels 6..8, for
\* Genesis the entry of the option in the vehicle's level mapping
WireOf(brand, name, cache) ==
    CASE brand = "kia" ->
           [heatVentType |-> CASE name \in {"Low Heat", "Medium Heat", "High Heat"} -> 1
                               [] name \in {"Low Cool", "Medium Cool", "High Cool"} -> 2
                               [] OTHER -> 0,
            heatVentLevel |-> CASE name \in {"High Heat", "High Cool"} -> 4
                                [] name \in {"Medium Heat", "Medium Cool"} -> 3
                                [] name \in {"Low Heat", "Low Cool"} -> 2
                                [] OTHER -> 1]
      [] brand = "hyundai" ->
           (CASE name = "High Heat" -> 3
              [] name = "Medium Heat" -> 2
              [] name = "Low Heat" -> 1
              [] name = "High Cool" -> 8
              [] name = "Medium Cool" -> 7
              [] name = "Low Cool" -> 6
              [] OTHER -> 0)
      [] OTHER ->
           LET mapping == IF cache = {} THEN [i \in 0..6 |-> i + 2]
                          ELSE CHOOSE m \in cache : TRUE
           IN  Get(mapping, ApiSeatSettings(name), Get(mapping, 0, 2))

\* the seat part of what start_climate sent, in the terms of WireOf
SentWire ==
    LET wire == CHOOSE w \in conv.res.sent : TRUE
    IN  IF conv.arg.brand = "kia"
        THEN [heatVentType |-> wire.heatVentType, heatVentLevel |-> wire.heatVentLevel]
        ELSE wire

\* start_climate has sent a seat value for an option of the select entities,
\* given as STR_TO_SEAT_SETTING[option]
OptionSent ==
    /\ conv.arg.for = "vehicle" /\ conv.fn = "start_climate"
    /\ conv.arg.seat # None /\ conv.arg.enum = "integration"
    /\ conv.res.sent # {}

\* C35: for each of the seven seat options, handed over as the integration's
\* SeatSettings member, the seat value each brand's start_climate sends stands
\* for that option: same type and level for Kia, the option's heat or cool
\* wire level for Hyundai and Genesis.
C35_OptionKeptOnWire ==
    OptionSent => SentWire = WireOf(conv.arg.brand, conv.arg.seat, conv.mappings)

\* ------------------------------------------------------- the EUApiAdapter
\* the adapter methods that record the vendor's action id
AdapterCommands ==
    {"lock", "unlock", "start_climate", "stop_climate", "start_charge", "stop_charge",
     "set_charge_limits"}

\* a caller awaits a command, or force_refresh_vehicle_state (directly or
\* through request_vehicle_data_sync): the executor job is started
AdapterCall(name) ==
    /\ adapter.call = None
    /\ adapter.calls < MaxAdapterCalls
    /\ adapter' = [adapter EXCEPT !.call = name, !.calls = @ + 1]
    /\ UNCHANGED <<kia, gen, hyu, hass, data, task, running, obs, now, hist, conv, registry>>

\* the executor job returns: a command records the action id the vendor gave
\* the order, force_refresh_vehicle_state records {"name": "force_refresh",
\* "xid": None}
AdapterCallReturn ==
    /\ adapter.call # None
    /\ adapter' =
          IF adapter.call = "force_refresh"
          THEN [adapter EXCEPT !.call = None,
                               !.last_action = [name |-> "force_refresh", xid |-> {}]]
          ELSE [adapter EXCEPT !.call = None,
                               !.last_action = [name |-> adapter.call, xid |-> {adapter.calls}],
                               !.order[adapter.calls] = "pending"]
    /\ UNCHANGED <<kia, gen, hyu, hass, data, task, running, obs, now, hist, conv, registry>>

\* the executor job raises: nothing is recorded
AdapterCallRaise ==
    /\ adapter.call # None
    /\ adapter' = [adapter EXCEPT !.call = None]
    /\ UNCHANGED <<kia, gen, hyu, hass, data, task, running, obs, now, hist, conv, registry>>

\* the vehicle answers the order: the vendor's status becomes terminal
OrderEnds(x) ==
    /\ adapter.order[x] = "pending"
    /\ \E status \in {"finished", "failed"} : adapter' = [adapter EXCEPT !.order[x] = status]
    /\ UNCHANGED <<kia, gen, hyu, hass, data, task, running, obs, now, hist, conv, registry>>

\* the update interval fires: refresh() of the vehicle's coordinator
AdapterRefreshStart ==
    /\ adapter.refresh = "idle"
    /\ adapter' = [adapter EXCEPT !.refresh = "loop"]
    /\ UNCHANGED <<kia, gen, hyu, hass, data, task, running, obs, now, hist, conv, registry>>

\* `while self.last_action_name is not None`, and check_last_action_finished up
\* to its await: without an action id (`if action_id:`) it returns None at
\* once, refresh() finds `finished` false and sleeps
AdapterRefreshLoop ==
    /\ adapter.refresh = "loop"
    /\ adapter' =
          IF adapter.last_action.name = None THEN [adapter EXCEPT !.refresh = "fetch"]
          ELSE IF adapter.last_action.xid = {} THEN [adapter EXCEPT !.refresh = "sleeping"]
          ELSE [adapter EXCEPT !.refresh = "checking",
                               !.checked = CHOOSE x \in adapter.last_action.xid : TRUE]
    /\ UNCHANGED <<kia, gen, hyu, hass, data, task, running, obs, now, hist, conv, registry>>

\* check_action_status returns the vendor's status of the order: a terminal
\* status clears _last_action; the call returns None and refresh() sleeps
AdapterCheckReturn ==
    /\ adapter.refresh = "checking"
    /\ adapter' = [adapter EXCEPT
                      !.refresh = "sleeping",
                      !.last_action = IF adapter.order[adapter.checked] \in {"finished", "failed"}
                                      THEN NoAdapterAction ELSE @]
    /\ UNCHANGED <<kia, gen, hyu, hass, data, task, running, obs, now, hist, conv, registry>>

\* check_action_status raises: `except Exception` clears _last_action
AdapterCheckRaise ==
    /\ adapter.refresh = "checking"
    /\ adapter' = [adapter EXCEPT !.refresh = "sleeping", !.last_action = NoAdapterAction]
    /\ UNCHANGED <<kia, gen, hyu, hass, data, task, running, obs, now, hist, conv, registry>>

\* sleep(DELAY_BETWEEN_ACTION_IN_PROGRESS_CHECKING) is over
AdapterWake ==
    /\ adapter.refresh = "sleeping"
    /\ adapter' = [adapter EXCEPT !.refresh = "loop"]
    /\ UNCHANGED <<kia, gen, hyu, hass, data, task, running, obs, now, hist, conv, registry>>

\* get_cached_vehicle_status returns or raises: refresh() ends
AdapterFetch ==
    /\ adapter.refresh = "fetch"
    /\ adapter' = [adapter EXCEPT !.refresh = "idle"]
    /\ UNCHANGED <<kia, gen, hyu, hass, data, task, running, obs, now, hist, conv, registry>>

InitAdapter ==
    /\ kia = NewKia(None, "entry_setup")
    /\ hass = NoConnection
    /\ conv = NoConv
    /\ InitCore

\* refresh() up to its end, once started
AdapterRefreshRun ==
    AdapterRefreshLoop \/ AdapterCheckReturn \/ AdapterCheckRaise \/ AdapterWake \/ AdapterFetch

NextAdapter ==
    \/ \E name \in AdapterCommands \cup {"force_refresh"} : AdapterCall(name)
    \/ AdapterCallReturn
    \/ AdapterCallRaise
    \/ \E x \in 1..MaxAdapterCalls : OrderEnds(x)
    \/ AdapterRefreshStart
    \/ AdapterRefreshRun

SpecAdapter == InitAdapter /\ [][NextAdapter]_vars

\* the event loop runs refresh() whenever it can run, and the vehicle answers
\* every order
SpecAdapterFair ==
    /\ SpecAdapter
    /\ WF_vars(AdapterRefreshRun)
    /\ \A x \in 1..MaxAdapterCalls : WF_vars(OrderEnds(x))

\* refresh() is in its wait loop
AdapterWaiting == adapter.refresh \in {"loop", "checking", "sleeping"}

\* C36: every pending action the EUApiAdapter records, the one of
\* force_refresh_vehicle_state included, is cleared by a later
\* check_last_action_finished once the vendor's status is terminal or the check
\* raises, so that a refresh() that waits for it leaves its wait loop and goes
\* on to the status fetch.
C36_AdapterRefreshTerminates == AdapterWaiting ~> adapter.refresh = "fetch"

\* ---------------------------------------------------- the refused command
\* one caller at a time, as in Next
NextCalls ==
    \/ AllQuiet /\ (StartLogin(1) \/ StartGetVehicles(1) \/ StartOpFrom(1))
    \/ ClientStep(1) \/ OtpStep(1) \/ StatusStep(1) \/ SyncStep(1)

SpecCalls == Init /\ [][NextCalls]_vars

\* the command of t has ended after its completion poll reported 'not finished'
Refused(t) == IsCommand(t) /\ Done(t) /\ obs[t].pollNF

\* C37: a Kia command refused because the completion poll reported 'not
\* finished' leaves the pending action (name and tracking id), the session id
\* and the vehicle cache as the call found them, and has sent no command
\* request.
C37_RefusedCommandChangesNothing ==
    \A t \in Tasks :
        Refused(t) => Found(kia) = obs[t].found /\ ~obs[t].cmdSent

\* C37 amended: the refused command leaves the pending action and the vehicle
\* cache as the call found them and has sent no command request; the session
\* id is as before when the call found a session, and is the one of the login
\* the call made for its poll when it found none.
C37_RefusedCommandKeepsPending ==
    \A t \in Tasks :
        Refused(t) =>
            /\ kia.last_action = obs[t].found.last_action
            /\ kia.vehicles = obs[t].found.vehicles
            /\ ~obs[t].cmdSent
            /\ IF obs[t].found.session_id # None
               THEN kia.session_id = obs[t].found.session_id
               ELSE kia.session_id # None

\* a pending action was found, polled and kept, and the caller got the error
C37_Witness ==
    \E t \in Tasks :
        /\ Refused(t) /\ task[t].out = "ActionAlreadyInProgressError"
        /\ obs[t].found.last_action # NoAction /\ kia.last_action = obs[t].found.last_action
        /\ obs[t].found.session_id # None /\ kia.session_id = obs[t].found.session_id

\* --------------------------------------------- the Genesis token and its expiry
\* the refresh login of _ensure_token_valid has raised, and the exception is
\* on its way out of _ensure_token_valid
RefreshLoginFailed(t) ==
    /\ task[t].exc # None
    /\ task[t].stack # <<>> /\ Top(task[t]).fn = "g_ensure"

====
